---------------------------- MODULE Spec2Model ----------------------------
(***************************************************************************)
(* A model of src/agent-4.py: the JobApplicationAgent class (resume and    *)
(* job-description intake, match analysis, email generation, dispatch      *)
(* through the Gmail API) and the session-based activity history.          *)
(*                                                                         *)
(* Text is a sequence of one-character strings, so that split, strip,      *)
(* lower and startswith are computed character by character.  An optional  *)
(* Python value is None (the empty tuple) or Some(v) (a one-tuple).        *)
(***************************************************************************)
EXTENDS Integers, Sequences, FiniteSets, TLC

VARIABLES
    resume_text,            \* self.resume_text: None or Some(text)
    resume_file_path,       \* self.resume_file_path: None or Some(path)
    job_description,        \* self.job_description: None or Some(text)
    gmail_credentials,      \* self.gmail_credentials: "none", "valid", "invalid"
    credentials_content,    \* 'credentials_content' in st.session_state
    gmail_token,            \* st.session_state.gmail_token: "absent", "valid", "expired"
    credentials_file,       \* whether credentials.json exists in the working directory
    fs,                     \* the working directory: path -> file content or "absent"
    last,                   \* the last completed call of an entry point, with what it did
    activity_history,       \* st.session_state.activity_history: None or Some(list)
    added,                  \* history of the entries handed to add_to_session_history
    clock,                  \* datetime.now(), as a counter
    raw_text,               \* a generated text handed to the email parser
    parsed,                 \* None, or Some(the parser's result for raw_text)
    letter,                 \* a body handed to _format_business_letter
    formatted,              \* the results of formatting letter, then each result again
    reflowed,               \* None, or Some(_format_text_paragraphs(letter))
    basic,                  \* None, or Some(the result of _basic_text_analysis)
    pc,                     \* per session: where its script run of main is
    run,                    \* per session: the locals of its script run (agent, inputs, steps done)
    session_state,          \* per session: st.session_state
    writer                  \* per path: the session whose process_resume wrote the file last

vars == <<resume_text, resume_file_path, job_description, gmail_credentials,
          credentials_content, gmail_token, credentials_file, fs, last,
          activity_history, added,
          clock, raw_text, parsed, letter, formatted, reflowed, basic,
          pc, run, session_state, writer>>

agentVars == <<resume_text, resume_file_path, job_description, gmail_credentials>>
sessionVars == <<credentials_content, gmail_token, credentials_file>>
historyVars == <<activity_history, added, clock>>
parseVars == <<raw_text, parsed>>
formatVars == <<letter, formatted, reflowed>>
fallbackVars == <<basic>>
mainVars == <<pc, run, session_state, writer>>

-----------------------------------------------------------------------------
(* Python values *)

None == <<>>
Some(v) == <<v>>

Min(a, b) == IF a < b THEN a ELSE b

-----------------------------------------------------------------------------
(* Outcomes of a call: a returned (success flag, message-or-payload) pair,  *)
(* or an exception that propagates to the caller.                          *)

NoPayload == [msg |-> "", id |-> "", email |-> None, analysis |-> None]

Return(flag, payload) == [kind |-> "return", ok |-> flag, payload |-> payload]
Raise == [kind |-> "raise", ok |-> FALSE, payload |-> NoPayload]
Message(m) == [NoPayload EXCEPT !.msg = m]

\* Mutant: the handler is missing, and the exception propagates.
ExceptReturn_Reraise(r, m) == r

\* try: <r> except Exception: return False, <m>. r carries the outcome in r.out.
ExceptReturn(r, m) ==
    IF r.out.kind = "raise" THEN [r EXCEPT !.out = Return(FALSE, Message(m))] ELSE r

-----------------------------------------------------------------------------
(* Text: sequences of one-character strings, and Python's str methods *)

UpperChars == <<"A", "B", "C", "D", "E", "F", "G", "H", "I", "J", "K", "L", "M", "N", "O", "P", "Q", "R", "S", "T", "U", "V", "W", "X", "Y", "Z">>
LowerChars == <<"a", "b", "c", "d", "e", "f", "g", "h", "i", "j", "k", "l", "m", "n", "o", "p", "q", "r", "s", "t", "u", "v", "w", "x", "y", "z">>

IsUpper(c) == \E i \in 1..26 : UpperChars[i] = c
IsLower(c) == \E i \in 1..26 : LowerChars[i] = c
\* str.isalpha for one character
IsAlpha(c) == IsUpper(c) \/ IsLower(c)
\* the characters str.strip() and str.split() treat as whitespace
IsSpace(c) == c \in {" ", "\n", "\r", "\t"}

LowerChar(c) ==
    IF IsUpper(c) THEN LowerChars[CHOOSE i \in 1..26 : UpperChars[i] = c] ELSE c

\* str.lower()
Lower(s) == [i \in 1..Len(s) |-> LowerChar(s[i])]

\* s[:n]
Prefix(s, n) == SubSeq(s, 1, Min(n, Len(s)))

\* s.startswith(p)
StartsWith(s, p) == Len(p) <= Len(s) /\ SubSeq(s, 1, Len(p)) = p

\* sub in s
Contains(s, sub) ==
    \E i \in 1..(Len(s) - Len(sub) + 1) : SubSeq(s, i, i + Len(sub) - 1) = sub

\* s.strip(chars), for a set of characters
RECURSIVE LStripChars(_, _)
LStripChars(s, cs) ==
    IF s # <<>> /\ Head(s) \in cs THEN LStripChars(Tail(s), cs) ELSE s

RECURSIVE RStripChars(_, _)
RStripChars(s, cs) ==
    IF s # <<>> /\ s[Len(s)] \in cs THEN RStripChars(SubSeq(s, 1, Len(s) - 1), cs) ELSE s

StripChars(s, cs) == RStripChars(LStripChars(s, cs), cs)

\* s.strip()
Strip(s) == StripChars(s, {" ", "\n", "\r", "\t"})

\* s.split(sep) for a one-character separator: always at least one piece
RECURSIVE SplitOn(_, _)
SplitOn(s, sep) ==
    IF \A i \in 1..Len(s) : s[i] # sep
    THEN <<s>>
    ELSE LET k == CHOOSE i \in 1..Len(s) :
                      s[i] = sep /\ \A j \in 1..(i - 1) : s[j] # sep
         IN  <<SubSeq(s, 1, k - 1)>> \o SplitOn(SubSeq(s, k + 1, Len(s)), sep)

\* s.split(): the maximal runs of non-whitespace characters
RECURSIVE SplitWords(_)
SplitWords(s) ==
    LET t == LStripChars(s, {" ", "\n", "\r", "\t"})
    IN  IF t = <<>>
        THEN <<>>
        ELSE LET n == IF \E i \in 1..Len(t) : IsSpace(t[i])
                      THEN (CHOOSE i \in 1..Len(t) :
                                IsSpace(t[i]) /\ \A j \in 1..(i - 1) : ~IsSpace(t[j])) - 1
                      ELSE Len(t)
             IN  <<SubSeq(t, 1, n)>> \o SplitWords(SubSeq(t, n + 1, Len(t)))

\* sep.join(parts)
RECURSIVE Join(_, _)
Join(parts, sep) ==
    IF parts = <<>> THEN <<>>
    ELSE IF Len(parts) = 1 THEN parts[1]
    ELSE parts[1] \o sep \o Join(Tail(parts), sep)

\* set(seq)
Range(seq) == {seq[i] : i \in 1..Len(seq)}

\* Mutant: only None is falsy, as in "x is None".
Truthy_NotNone(opt) == opt # None

\* bool(x) for an optional text: None and "" are falsy
Truthy(opt) == opt # None /\ opt[1] # <<>>

-----------------------------------------------------------------------------
(* The working directory and the uploaded files *)

UploadNames == {"cv.pdf"}
\* f"resume_{uploaded_file.name}"
ResumePath(name) == CASE name = "cv.pdf" -> "resume_cv.pdf"
Paths == {"resume_cv.pdf", "docs/cv.pdf"}
\* os.path.basename
Basename(path) == CASE path = "resume_cv.pdf" -> "resume_cv.pdf"
                    [] path = "docs/cv.pdf" -> "cv.pdf"
\* file contents: a resume with text, a scanned resume without text, a corrupt file
FileData == {"pdfJohn", "pdfLine", "pdfScan", "pdfBad"}

\* os.path.exists(path): TypeError for None
PathExists(files, optPath) ==
    IF optPath = None THEN "raise"
    ELSE IF files[optPath[1]] # "absent" THEN "true" ELSE "false"

Recipients == {"hr@corp.example"}
\* the two actions of main, and a value that is neither
Actions == {"draft", "send", "schedule"}
ApiIds == {"id1", "id2"}

-----------------------------------------------------------------------------
(* Dispatch: send_email, attach_and_send_email, _send_email_with_attachment *)

\* One call of the Gmail API: the operation, the message it was given and
\* what it returned ("raise", or the identifier of the draft or message).
MailCall(op, recipient, email_content, files, optPath, returned) ==
    [op |-> op,
     to |-> recipient,
     subject |-> email_content.subject,
     body |-> email_content.body,
     attachment |-> IF PathExists(files, optPath) = "true"
                    THEN Some([filename |-> Basename(optPath[1]),
                               payload |-> files[optPath[1]]])
                    ELSE None,
     returned |-> returned]

\* The outcomes of the external calls of one dispatch:
\*   build: googleapiclient.discovery.build; read: reading the attachment;
\*   api: drafts().create().execute() or messages().send().execute(),
\*        "raise" or the identifier the API returns.
DispatchEnv == [build : {"ok", "raise"}, read : {"ok", "raise"},
                api : {"raise"} \cup ApiIds]

\* Mutant: the action is ignored and the message is always sent.
SendOrDraft_AlwaysSend(recipient, email_content, files, optPath, action, e) ==
    [out |-> IF e.api = "raise" THEN Raise
             ELSE Return(TRUE, [Message("Email sent successfully with ID")
                                   EXCEPT !.id = e.api]),
     mail |-> <<MailCall("messages.send", recipient, email_content, files,
                         optPath, e.api)>>]

\* Mutant: a failed call is tried a second time.
SendOrDraft_Retry(recipient, email_content, files, optPath, action, e) ==
    LET op == IF action = "draft" THEN "drafts.create" ELSE "messages.send"
        call == MailCall(op, recipient, email_content, files, optPath, e.api)
    IN  [out |-> IF e.api = "raise" THEN Raise
                 ELSE Return(TRUE, [Message(IF action = "draft"
                                            THEN "Draft created successfully with ID"
                                            ELSE "Email sent successfully with ID")
                                       EXCEPT !.id = e.api]),
         mail |-> IF e.api = "raise" THEN <<call, call>> ELSE <<call>>]

\* The branch on action and the API call
SendOrDraft(recipient, email_content, files, optPath, action, e) ==
    IF action = "draft"
    THEN [out |-> IF e.api = "raise" THEN Raise
                  ELSE Return(TRUE, [Message("Draft created successfully with ID")
                                        EXCEPT !.id = e.api]),
          mail |-> <<MailCall("drafts.create", recipient, email_content, files,
                              optPath, e.api)>>]
    ELSE [out |-> IF e.api = "raise" THEN Raise
                  ELSE Return(TRUE, [Message("Email sent successfully with ID")
                                        EXCEPT !.id = e.api]),
          mail |-> <<MailCall("messages.send", recipient, email_content, files,
                              optPath, e.api)>>]

\* Mutant: stored credentials are used without asking whether they are valid.
SendWithAttachmentBody_NoValidity(creds, files, recipient, email_content, optPath, action, e) ==
    IF creds = "none"
    THEN [out |-> Return(FALSE, Message("Gmail credentials not available. Please reconnect to Gmail.")),
          mail |-> <<>>]
    ELSE IF e.build = "raise" THEN [out |-> Raise, mail |-> <<>>]
    ELSE IF PathExists(files, optPath) = "raise" THEN [out |-> Raise, mail |-> <<>>]
    ELSE IF PathExists(files, optPath) = "true" /\ e.read = "raise"
    THEN [out |-> Raise, mail |-> <<>>]
    ELSE SendOrDraft(recipient, email_content, files, optPath, action, e)

\* The body of the try block of _send_email_with_attachment
SendWithAttachmentBody(creds, files, recipient, email_content, optPath, action, e) ==
    IF creds = "none" \/ creds # "valid"
    THEN [out |-> Return(FALSE, Message("Gmail credentials not available. Please reconnect to Gmail.")),
          mail |-> <<>>]
    ELSE IF e.build = "raise" THEN [out |-> Raise, mail |-> <<>>]
    ELSE IF PathExists(files, optPath) = "raise" THEN [out |-> Raise, mail |-> <<>>]
    ELSE IF PathExists(files, optPath) = "true" /\ e.read = "raise"
    THEN [out |-> Raise, mail |-> <<>>]
    ELSE SendOrDraft(recipient, email_content, files, optPath, action, e)

send_email_with_attachment(creds, files, recipient, email_content, optPath, action, e) ==
    ExceptReturn(SendWithAttachmentBody(creds, files, recipient, email_content,
                                        optPath, action, e),
                 "Error in Gmail API")

\* The body of the try block of attach_and_send_email
AttachAndSendBody(creds, files, recipient, email_content, optPath, action, e) ==
    IF creds = "none"
    THEN [out |-> Return(FALSE, Message("Gmail not connected")), mail |-> <<>>]
    ELSE IF PathExists(files, optPath) = "raise" THEN [out |-> Raise, mail |-> <<>>]
    ELSE IF PathExists(files, optPath) = "false"
    THEN [out |-> Return(FALSE, Message("Attachment file not found")), mail |-> <<>>]
    ELSE send_email_with_attachment(creds, files, recipient, email_content,
                                    optPath, action, e)

attach_and_send_email(creds, files, recipient, email_content, optPath, action, e) ==
    ExceptReturn(AttachAndSendBody(creds, files, recipient, email_content,
                                   optPath, action, e),
                 "Error in attach_and_send_email")

\* The body of the try block of send_email
SendEmailBody(creds, files, recipient, email_content, optPath, action, e) ==
    IF creds = "none"
    THEN [out |-> Return(FALSE, Message("Gmail not connected")), mail |-> <<>>]
    ELSE IF optPath = None \/ PathExists(files, optPath) = "false"
    THEN [out |-> Return(FALSE, Message("Resume file not found for attachment")),
          mail |-> <<>>]
    ELSE send_email_with_attachment(creds, files, recipient, email_content,
                                    optPath, action, e)

send_email(creds, files, recipient, email_content, optPath, action, e) ==
    ExceptReturn(SendEmailBody(creds, files, recipient, email_content,
                               optPath, action, e),
                 "Error <action>ing email")

-----------------------------------------------------------------------------
(* Gmail authentication: setup_gmail_auth, and the expiry of a token *)

AuthEnv == [refresh : {"ok", "raise"}, flow : {"ok", "raise"}]

\* The body of the try block of setup_gmail_auth: the outcome, and the
\* credentials and the session token it leaves. A stored token is loaded; an
\* expired one is refreshed, and without a token the OAuth flow is run.
SetupGmailAuthBody(creds, has_content, token, e) ==
    IF ~has_content
    THEN [out |-> Return(FALSE, Message("Gmail credentials not uploaded. Please upload credentials.json file.")),
          creds |-> creds, token |-> token]
    ELSE IF token = "valid"
    THEN [out |-> Return(TRUE, Message("Gmail connected successfully!")),
          creds |-> "valid", token |-> token]
    ELSE IF (token = "expired" /\ e.refresh = "raise")
            \/ (token = "absent" /\ e.flow = "raise")
    THEN [out |-> Raise, creds |-> creds, token |-> token]
    ELSE [out |-> Return(TRUE, Message("Gmail connected successfully!")),
          creds |-> "valid", token |-> "valid"]

setup_gmail_auth(creds, has_content, token, e) ==
    ExceptReturn(SetupGmailAuthBody(creds, has_content, token, e),
                 "Failed to setup Gmail")

-----------------------------------------------------------------------------
(* Resume and job description intake *)

\* What the PDF reader extracts from a file (extract_text_from_pdf strips it);
\* "raise" for a file that is not a PDF.
JohnPdfText == <<"J", "o", "h", "n", " ", "S", "m", "i", "t", "h", "\n",
                 "p", "y", "t", "h", "o", "n", " ", "s", "q", "l", "\n">>
\* A resume of one line
LinePdfText == <<"J", "a", "n", "e", " ", "D", "o", "e", "\n">>
PdfPages(data) == CASE data = "pdfJohn" -> Some(JohnPdfText)
                    [] data = "pdfLine" -> Some(LinePdfText)
                    [] data = "pdfScan" -> Some(<<"\n">>)
                    [] data = "pdfBad" -> None

extract_text_from_pdf(files, path) ==
    IF files[path] = "absent" \/ PdfPages(files[path]) = None
    THEN [raised |-> TRUE, text |-> <<>>]
    ELSE [raised |-> FALSE, text |-> Strip(PdfPages(files[path])[1])]

\* The upload and the outcome of writing it: written, open() failed (the file
\* is as it was), or write() failed (a truncated file is left).
Uploads == [name : UploadNames, data : FileData]
WriteOutcomes == {"ok", "open_raises", "write_raises"}

\* Mutant: a file that exists is not overwritten.
FilesAfterWrite_KeepsExisting(files, path, data, w) ==
    IF w = "ok" THEN (IF files[path] = "absent" THEN [files EXCEPT ![path] = data] ELSE files)
    ELSE IF w = "write_raises" THEN [files EXCEPT ![path] = "pdfBad"]
    ELSE files

FilesAfterWrite(files, path, data, w) ==
    IF w = "ok" THEN [files EXCEPT ![path] = data]
    ELSE IF w = "write_raises" THEN [files EXCEPT ![path] = "pdfBad"]
    ELSE files

\* The body of the try block of process_resume: the outcome and the fields
\* and files it leaves. The path is stored before the file is written, and
\* the text only once it is extracted.
ProcessResumeBody(text, files, uploaded_file, w) ==
    LET path == ResumePath(uploaded_file.name)
        files2 == FilesAfterWrite(files, path, uploaded_file.data, w)
        extracted == extract_text_from_pdf(files2, path)
    IN  IF w # "ok" \/ extracted.raised
        THEN [out |-> Raise,
              resume_text |-> text, resume_file_path |-> Some(path), fs |-> files2]
        ELSE IF extracted.text = <<>>
        THEN [out |-> Return(FALSE, Message("Could not extract text from PDF")),
              resume_text |-> Some(extracted.text), resume_file_path |-> Some(path),
              fs |-> files2]
        ELSE [out |-> Return(TRUE, Message("Resume processed successfully!")),
              resume_text |-> Some(extracted.text), resume_file_path |-> Some(path),
              fs |-> files2]

process_resume(text, files, uploaded_file, w) ==
    ExceptReturn(ProcessResumeBody(text, files, uploaded_file, w),
                 "Error processing resume")

JobText == <<" ", "P", "y", "t", "h", "o", "n", " ", "a", "w", "s", " ",
             "d", "e", "v", "e", "l", "o", "p", "e", "r", "\n">>
JobInputs == {None, Some(<<>>), Some(<<" ", "\n">>), Some(JobText)}

\* The body of the try block of set_job_description: the outcome and the
\* field it leaves
SetJobDescriptionBody(current, input) ==
    IF input = None \/ input[1] = <<>> \/ Strip(input[1]) = <<>>
    THEN [out |-> Return(FALSE, Message("Please provide a job description")),
          job_description |-> current]
    ELSE [out |-> Return(TRUE, Message("Job description set successfully!")),
          job_description |-> Some(Strip(input[1]))]

set_job_description(current, input) ==
    ExceptReturn(SetJobDescriptionBody(current, input),
                 "Error setting job description")

-----------------------------------------------------------------------------
(* Match analysis: analyze_job_match and _basic_text_analysis *)

MinAnalysisLen == 100
AnalysisPromptCap == 3000
MinKeywordLen == 4
ImportantCap == 20
DisplayCap == 10

\* str.isalpha
IsAlphaWord(w) == w # <<>> /\ \A i \in 1..Len(w) : IsAlpha(w[i])

\* set(text.lower().split())
WordSet(text) == Range(SplitWords(Lower(text)))

\* The orders in which Python may iterate over a set of words
RECURSIVE Orders(_)
Orders(S) ==
    IF S = {} THEN {<<>>}
    ELSE UNION {{<<w>> \o rest : rest \in Orders(S \ {w})} : w \in S}

IsImportant(w) == Len(w) > MinKeywordLen /\ IsAlphaWord(w)

\* min(100, int((len(common_words) / len(job_words)) * 100)) if job_words else 0.
\* The truncated float product equals the integer quotient for fewer than 50
\* job words; the first pair that differs is 29 of 50.
MatchPercentage(job_words, resume_words) ==
    IF job_words # {}
    THEN Min(100, (Cardinality(job_words \cap resume_words) * 100)
                      \div Cardinality(job_words))
    ELSE 0

\* The missing keywords shown: up to DisplayCap of those of the first
\* ImportantCap important words (in iteration order) that the resume lacks.
MissingWords(order, resume_words) ==
    LET important_words == SelectSeq(order, IsImportant)
        NotInResume(w) == w \notin resume_words
    IN  SelectSeq(Prefix(important_words, ImportantCap), NotInResume)

\* _basic_text_analysis, for the iteration order of job_words the run has.
\* The report is the text headed "BASIC TEXT ANALYSIS (LLM analysis failed)"
\* with its two computed fields; an empty missing list reads "None identified".
basic_text_analysis(jd, rt, order) ==
    [kind |-> "BASIC TEXT ANALYSIS (LLM analysis failed)",
     text |-> <<>>,
     match_percentage |-> MatchPercentage(WordSet(jd), WordSet(rt)),
     missing |-> Prefix(MissingWords(order, WordSet(rt)), DisplayCap)]

\* An analysis the model wrote
LlmAnalysis(content) ==
    [kind |-> "LLM", text |-> content, match_percentage |-> 0, missing |-> <<>>]

Filler(n) == [i \in 1..n |-> "x"]
AnalysisLens == {50, 99, 100}
\* What llm.invoke does: raises, or returns a response with this content
AnalysisResponses ==
    {[raised |-> TRUE, is_text |-> TRUE, content |-> <<>>]}
        \cup {[raised |-> FALSE, is_text |-> TRUE, content |-> Filler(n)] :
                  n \in AnalysisLens}

\* The outcomes of the external calls of one analysis:
\*   ctor: ChatGoogleGenerativeAI(...); llm: llm.invoke
AnalysisEnv == [ctor : {"ok", "raise"}, llm : AnalysisResponses]

AnalysisPrompt(jd, rt) ==
    [job |-> Prefix(jd, AnalysisPromptCap), resume |-> Prefix(rt, AnalysisPromptCap)]

\* The inner try block of analyze_job_match (lines 195-210) with its handler
AnalyzeInvoke(jd, rt, e, order) ==
    IF e.llm.raised
    THEN Return(TRUE, [NoPayload EXCEPT
                          !.analysis = Some(basic_text_analysis(jd, rt, order))])
    ELSE IF Len(e.llm.content) < MinAnalysisLen
    THEN Return(FALSE, Message("Analysis response was too short. Please try again."))
    ELSE Return(TRUE, [NoPayload EXCEPT !.analysis = Some(LlmAnalysis(e.llm.content))])

\* The body of the outer try block of analyze_job_match: the outcome and the
\* calls of llm.invoke it made
AnalyzeJobMatchBody(rt, jd, e, order) ==
    IF ~Truthy(rt) \/ ~Truthy(jd)
    THEN [out |-> Return(FALSE, Message("Resume or job description not available")),
          llm |-> <<>>]
    ELSE IF e.ctor = "raise" THEN [out |-> Raise, llm |-> <<>>]
    ELSE [out |-> AnalyzeInvoke(jd[1], rt[1], e, order),
          llm |-> <<[prompt |-> AnalysisPrompt(jd[1], rt[1]), response |-> e.llm]>>]

analyze_job_match(rt, jd, e, order) ==
    ExceptReturn(AnalyzeJobMatchBody(rt, jd, e, order), "Error in job analysis")

-----------------------------------------------------------------------------
(* Business-letter formatting: _format_business_letter, _format_text_paragraphs *)

\* re.sub(r'\r\n', '\n', text): every "\n" loses a "\r" right before it
ReplaceCRLF(s) ==
    LET pieces == SplitOn(s, "\n")
        DropCR(piece) == IF piece # <<>> /\ piece[Len(piece)] = "\r"
                         THEN SubSeq(piece, 1, Len(piece) - 1) ELSE piece
    IN  Join([i \in 1..Len(pieces) |->
                 IF i < Len(pieces) THEN DropCR(pieces[i]) ELSE pieces[i]],
             <<"\n">>)

\* re.sub(r'\r', '\n', text)
ReplaceCR(s) == [i \in 1..Len(s) |-> IF s[i] = "\r" THEN "\n" ELSE s[i]]

NormalizeLineBreaks(s) == ReplaceCR(ReplaceCRLF(s))

\* The length of the longest prefix of s whose characters all satisfy Test
RunLength(s, Test(_)) ==
    IF \A i \in 1..Len(s) : Test(s[i]) THEN Len(s)
    ELSE (CHOOSE i \in 1..Len(s) : ~Test(s[i]) /\ \A j \in 1..(i - 1) : Test(s[j])) - 1

DearPrefix == <<"D", "e", "a", "r", " ">>
NotCommaOrNewline(c) == c \notin {",", "\n"}

\* re.sub(r'^(Dear [^,\n]+)[,]?\s*\n?', r'\1,\n\n', text): without re.MULTILINE
\* the pattern matches at the start of the text only.
FormatGreeting(s) ==
    LET n == RunLength(SubSeq(s, Len(DearPrefix) + 1, Len(s)), NotCommaOrNewline)
        nameEnd == Len(DearPrefix) + n
        afterComma == IF nameEnd < Len(s) /\ s[nameEnd + 1] = ","
                      THEN nameEnd + 1 ELSE nameEnd
        rest == SubSeq(s, afterComma + 1, Len(s))
    IN  IF StartsWith(s, DearPrefix) /\ n >= 1
        THEN SubSeq(s, 1, nameEnd) \o <<",", "\n", "\n">>
                 \o SubSeq(rest, RunLength(rest, IsSpace) + 1, Len(rest))
        ELSE s

\* The loop of _format_text_paragraphs over the lines: consecutive non-blank
\* lines, stripped, are joined by one space; a blank line ends the paragraph.
RECURSIVE GroupParagraphs(_, _, _)
GroupParagraphs(lines, current_paragraph, paragraphs) ==
    IF lines = <<>>
    THEN IF current_paragraph # <<>>
         THEN Append(paragraphs, Join(current_paragraph, <<" ">>))
         ELSE paragraphs
    ELSE LET line == Strip(Head(lines))
         IN  IF line = <<>>
             THEN IF current_paragraph # <<>>
                  THEN GroupParagraphs(Tail(lines), <<>>,
                           Append(paragraphs, Join(current_paragraph, <<" ">>)))
                  ELSE GroupParagraphs(Tail(lines), <<>>, paragraphs)
             ELSE GroupParagraphs(Tail(lines), Append(current_paragraph, line),
                                  paragraphs)

\* Mutant: the paragraphs are joined by one line break, '\n'.join(paragraphs).
format_text_paragraphs_SingleBreak(text) ==
    Join(GroupParagraphs(SplitOn(text, "\n"), <<>>, <<>>), <<"\n">>)

format_text_paragraphs(text) ==
    Join(GroupParagraphs(SplitOn(text, "\n"), <<>>, <<>>), <<"\n", "\n">>)

ClosingTokens == {<<"S", "i", "n", "c", "e", "r", "e", "l", "y", ",">>,
                  <<"B", "e", "s", "t", " ", "r", "e", "g", "a", "r", "d", "s", ",">>,
                  <<"W", "a", "r", "m", " ", "r", "e", "g", "a", "r", "d", "s", ",">>}
IsNewline(c) == c = "\n"
IsNameChar(c) == IsAlpha(c) \/ IsSpace(c)

\* The match of r'\n*(Sincerely,|Best regards,|Warm regards,)\s*\n*([A-Za-z\s]+)$'
\* that starts at position p of s, if there is one: the newlines, the token,
\* and the name group, which runs to the end of the text. After the token the
\* whitespace goes to \s*; when nothing follows it, \s* gives its last
\* character back to the name group.
ClosingMatchAt(s, p) ==
    LET q == p + RunLength(SubSeq(s, p, Len(s)), IsNewline)
        tail == SubSeq(s, q, Len(s))
        tokens == {t \in ClosingTokens : StartsWith(tail, t)}
    IN  IF tokens = {} THEN None
        ELSE LET token == CHOOSE t \in tokens : TRUE
                 after == SubSeq(tail, Len(token) + 1, Len(tail))
                 w == RunLength(after, IsSpace)
                 r == SubSeq(after, w + 1, Len(after))
             IN  IF r # <<>>
                 THEN IF \A i \in 1..Len(r) : IsNameChar(r[i])
                      THEN Some([token |-> token, name |-> r])
                      ELSE None
                 ELSE IF w >= 1
                 THEN Some([token |-> token, name |-> <<after[w]>>])
                 ELSE None

\* re.sub(closing pattern, r'\n\n\1\n\2', text): the leftmost match is
\* replaced; it ends at the end of the text, so there is no second one.
FormatClosing(s) ==
    LET starts == {p \in 1..Len(s) : ClosingMatchAt(s, p) # None}
    IN  IF starts = {} THEN s
        ELSE LET p == CHOOSE x \in starts : \A y \in starts : x <= y
                 m == ClosingMatchAt(s, p)[1]
             IN  SubSeq(s, 1, p - 1) \o <<"\n", "\n">> \o m.token \o <<"\n">> \o m.name

format_business_letter(body_text) ==
    FormatClosing(format_text_paragraphs(FormatGreeting(NormalizeLineBreaks(body_text))))

-----------------------------------------------------------------------------
(* Email generation: generate_professional_email *)

NamePrefixCap == 500
EmailPromptCap == 1500
SubjectScanLines == 3

\* The end of a match of [A-Z][a-z]+ that starts at position p of s, or 0
CapWordEnd(s, p) ==
    IF p + 1 <= Len(s) /\ IsUpper(s[p]) /\ IsLower(s[p + 1])
    THEN p + RunLength(SubSeq(s, p + 1, Len(s)), IsLower)
    ELSE 0

\* The end of a match of (?: [A-Z][a-z]+) that starts at position p of s, or 0
NextCapWordEnd(s, p) ==
    IF p <= Len(s) /\ s[p] = " " THEN CapWordEnd(s, p + 1) ELSE 0

\* The end of the match of [A-Z][a-z]+(?: [A-Z][a-z]+){1,2} at position p, or 0
NameEndAt(s, p) ==
    LET w1 == CapWordEnd(s, p)
        w2 == IF w1 = 0 THEN 0 ELSE NextCapWordEnd(s, w1 + 1)
        w3 == IF w2 = 0 THEN 0 ELSE NextCapWordEnd(s, w2 + 1)
    IN  IF w3 # 0 THEN w3 ELSE w2

DefaultName == <<"A", "p", "p", "l", "i", "c", "a", "n", "t">>

\* candidate_name: the first match in resume_text[:500], or "Applicant"
CandidateName(rt) ==
    LET s == Prefix(rt, NamePrefixCap)
        starts == {p \in 1..Len(s) : NameEndAt(s, p) # 0}
    IN  IF starts = {} THEN DefaultName
        ELSE LET p == CHOOSE x \in starts : \A y \in starts : x <= y
             IN  SubSeq(s, p, NameEndAt(s, p))

SubjectPrefix == <<"s", "u", "b", "j", "e", "c", "t", ":">>
SubjectKeywords == {<<"a", "p", "p", "l", "i", "c", "a", "t", "i", "o", "n">>,
                    <<"p", "o", "s", "i", "t", "i", "o", "n">>,
                    <<"r", "o", "l", "e">>,
                    <<"j", "o", "b">>}
DefaultSubjectPrefix == <<"J", "o", "b", " ", "A", "p", "p", "l", "i", "c", "a", "t", "i", "o", 
                        "n", " ", "-", " ">>

\* line.lower().startswith('subject:')
IsSubjectLine(line) == StartsWith(Lower(line), SubjectPrefix)

\* Mutant: line.split(':')[1], which stops at the second colon.
AfterFirstColon_NoMaxsplit(line) == SplitOn(line, ":")[2]

\* line.split(':', 1)[1]
AfterFirstColon(line) ==
    LET k == CHOOSE i \in 1..Len(line) :
                 line[i] = ":" /\ \A j \in 1..(i - 1) : line[j] # ":"
    IN  SubSeq(line, k + 1, Len(line))

\* The loop over the lines that looks for the subject line (lines 310-318):
\* the first line with the prefix decides; the body starts at the first
\* non-blank line after it.
SubjectScan(lines) ==
    LET found == {i \in 1..Len(lines) : IsSubjectLine(lines[i])}
    IN  IF found = {} THEN [subject |-> <<>>, body_lines |-> <<>>]
        ELSE LET i == CHOOSE x \in found : \A y \in found : x <= y
                 nonblank == {j \in (i + 1)..Len(lines) : Strip(lines[j]) # <<>>}
             IN  [subject |-> Strip(AfterFirstColon(lines[i])),
                  body_lines |->
                      IF nonblank = {} THEN <<>>
                      ELSE SubSeq(lines,
                                  CHOOSE x \in nonblank : \A y \in nonblank : x <= y,
                                  Len(lines))]

\* any(keyword in line.lower() for keyword in [...])
HasSubjectKeyword(line) == \E k \in SubjectKeywords : Contains(Lower(line), k)

\* Mutant: the line taken as the subject is left out of the body.
SubjectFallback_DropsLine(lines, candidate_name) ==
    LET head == Prefix(lines, SubjectScanLines)
        found == {i \in 1..Len(head) : HasSubjectKeyword(head[i])}
        first == CHOOSE x \in found : \A y \in found : x <= y
    IN  IF found = {}
        THEN [subject |-> DefaultSubjectPrefix \o candidate_name, body_lines |-> lines]
        ELSE [subject |-> Strip(head[first]),
              body_lines |-> SubSeq(lines, 1, first - 1)
                                 \o SubSeq(lines, first + 1, Len(lines))]

\* The fallback when no subject was found (lines 321-331): the first of the
\* first three lines with a keyword, else the default; the body is all lines.
SubjectFallback(lines, candidate_name) ==
    LET head == Prefix(lines, SubjectScanLines)
        found == {i \in 1..Len(head) : HasSubjectKeyword(head[i])}
        keyword_subject ==
            IF found = {} THEN <<>>
            ELSE Strip(head[CHOOSE x \in found : \A y \in found : x <= y])
    IN  [subject |-> IF keyword_subject # <<>> THEN keyword_subject
                     ELSE DefaultSubjectPrefix \o candidate_name,
         body_lines |-> lines]

\* subject.strip('"').strip("'").strip()
CleanSubject(subject) == Strip(StripChars(StripChars(subject, {"\""}), {"'"}))

\* Mutant: the joined body is returned as it is, without .strip().
ParseEmail_RawBody(email_content, candidate_name) ==
    LET lines == SplitOn(email_content, "\n")
        scan == SubjectScan(lines)
        chosen == IF scan.subject = <<>> THEN SubjectFallback(lines, candidate_name)
                  ELSE scan
    IN  [subject |-> CleanSubject(chosen.subject),
         body |-> Join(chosen.body_lines, <<"\n">>)]

\* Parsing of the generated text (lines 305-337): the subject and the body
\* before letter formatting
ParseEmail(email_content, candidate_name) ==
    LET lines == SplitOn(email_content, "\n")
        scan == SubjectScan(lines)
        chosen == IF scan.subject = <<>> THEN SubjectFallback(lines, candidate_name)
                  ELSE scan
    IN  [subject |-> CleanSubject(chosen.subject),
         body |-> Strip(Join(chosen.body_lines, <<"\n">>))]

\* The templated body of the parse-error handler (lines 350-359), before the
\* candidate's name
TemplateBody ==
    <<"D", "e", "a", "r", " ", "H", "i", "r", "i", "n", "g", " ", "T", "e", 
    "a", "m", ",", "\n", "\n", " ", " ", " ", " ", " ", " ", " ", " ", 
    " ", " ", " ", " ", " ", " ", " ", " ", " ", " ", " ", " ", "I", " ", 
    "a", "m", " ", "i", "n", "t", "e", "r", "e", "s", "t", "e", "d", " ", 
    "i", "n", " ", "a", "p", "p", "l", "y", "i", "n", "g", " ", "f", "o", 
    "r", " ", "t", "h", "e", " ", "p", "o", "s", "i", "t", "i", "o", "n", 
    " ", "a", "t", " ", "y", "o", "u", "r", " ", "c", "o", "m", "p", "a", 
    "n", "y", ".", "\n", "\n", " ", " ", " ", " ", " ", " ", " ", " ", 
    " ", " ", " ", " ", " ", " ", " ", " ", " ", " ", " ", " ", "M", "y", 
    " ", "b", "a", "c", "k", "g", "r", "o", "u", "n", "d", " ", "a", "n", 
    "d", " ", "e", "x", "p", "e", "r", "i", "e", "n", "c", "e", " ", "a", 
    "r", "e", " ", "o", "u", "t", "l", "i", "n", "e", "d", " ", "i", "n", 
    " ", "t", "h", "e", " ", "a", "t", "t", "a", "c", "h", "e", "d", " ", 
    "r", "e", "s", "u", "m", "e", ".", " ", "I", " ", "w", "o", "u", "l", 
    "d", " ", "a", "p", "p", "r", "e", "c", "i", "a", "t", "e", " ", "t", 
    "h", "e", " ", "o", "p", "p", "o", "r", "t", "u", "n", "i", "t", "y", 
    " ", "t", "o", " ", "d", "i", "s", "c", "u", "s", "s", " ", "m", "y", 
    " ", "q", "u", "a", "l", "i", "f", "i", "c", "a", "t", "i", "o", "n", 
    "s", " ", "w", "i", "t", "h", " ", "y", "o", "u", ".", "\n", "\n", 
    " ", " ", " ", " ", " ", " ", " ", " ", " ", " ", " ", " ", " ", " ", 
    " ", " ", " ", " ", " ", " ", "T", "h", "a", "n", "k", " ", "y", "o", 
    "u", " ", "f", "o", "r", " ", "y", "o", "u", "r", " ", "c", "o", "n", 
    "s", "i", "d", "e", "r", "a", "t", "i", "o", "n", ".", "\n", "\n", 
    " ", " ", " ", " ", " ", " ", " ", " ", " ", " ", " ", " ", " ", " ", 
    " ", " ", " ", " ", " ", " ", "B", "e", "s", "t", " ", "r", "e", "g", 
    "a", "r", "d", "s", ",", "\n", " ", " ", " ", " ", " ", " ", " ", 
    " ", " ", " ", " ", " ", " ", " ", " ", " ", " ", " ", " ", " ">>

\* The handler of the inner try block (lines 346-362)
TemplateEmail(candidate_name) ==
    [subject |-> DefaultSubjectPrefix \o candidate_name,
     body |-> format_business_letter(TemplateBody \o candidate_name)]

\* What llm.invoke does: raises, or returns a response whose content is this
\* text, or is not text (a list of parts), which the parsing cannot split.
EmailPrompt(jd, rt) ==
    [job |-> Prefix(jd, EmailPromptCap), resume |-> Prefix(rt, EmailPromptCap),
     name |-> CandidateName(rt)]

\* The inner try block of generate_professional_email with its handler
GenerateParse(response, candidate_name) ==
    IF ~response.is_text
    THEN Return(TRUE, [NoPayload EXCEPT !.email = Some(TemplateEmail(candidate_name))])
    ELSE LET parsed_email == ParseEmail(response.content, candidate_name)
         IN  Return(TRUE, [NoPayload EXCEPT !.email =
                 Some([subject |-> parsed_email.subject,
                       body |-> format_business_letter(parsed_email.body)])])

\* Mutant: llm.invoke is inside the inner try block, whose handler answers
\* a failed generation with the templated email.
GenerateEmailBody_TemplateOnFailure(rt, jd, e) ==
    IF ~Truthy(rt) \/ ~Truthy(jd)
    THEN [out |-> Return(FALSE, Message("Resume or job description not available")),
          llm |-> <<>>]
    ELSE IF e.ctor = "raise" THEN [out |-> Raise, llm |-> <<>>]
    ELSE [out |-> IF e.llm.raised
                  THEN Return(TRUE, [NoPayload EXCEPT
                           !.email = Some(TemplateEmail(CandidateName(rt[1])))])
                  ELSE GenerateParse(e.llm, CandidateName(rt[1])),
          llm |-> <<[prompt |-> EmailPrompt(jd[1], rt[1]), response |-> e.llm]>>]

\* The body of the outer try block of generate_professional_email: the
\* outcome and the calls of llm.invoke it made
GenerateEmailBody(rt, jd, e) ==
    IF ~Truthy(rt) \/ ~Truthy(jd)
    THEN [out |-> Return(FALSE, Message("Resume or job description not available")),
          llm |-> <<>>]
    ELSE IF e.ctor = "raise" THEN [out |-> Raise, llm |-> <<>>]
    ELSE [out |-> IF e.llm.raised THEN Raise
                  ELSE GenerateParse(e.llm, CandidateName(rt[1])),
          llm |-> <<[prompt |-> EmailPrompt(jd[1], rt[1]), response |-> e.llm]>>]

generate_professional_email(rt, jd, e) ==
    ExceptReturn(GenerateEmailBody(rt, jd, e), "Error generating email")

-----------------------------------------------------------------------------
(* Sessions of main: st.session_state and the locals of a script run        *)

Sessions == {1, 2}

\* The keys the application stores in st.session_state
SessionKeys ==
    {"activity_history", "analysis_result", "email_content", "credentials_content",
     "job_desc_text", "recipient_email_text", "uploaded_file_data",
     "uploaded_file_name", "gmail_token", "show_analysis"}

\* keys_to_clear of clear_session_data
keys_to_clear ==
    {"activity_history", "analysis_result", "email_content", "credentials_content",
     "job_desc_text", "recipient_email_text", "uploaded_file_data",
     "uploaded_file_name"}

\* The session state of a new browser session: no key is present. The value
\* fields hold the values of the keys that are present.
NewSession ==
    [keys |-> {},
     activity_history |-> <<>>,
     analysis_result |-> None,
     email_content |-> None,
     show_analysis |-> FALSE,
     job_desc_text |-> <<>>,
     recipient_email_text |-> "",
     uploaded_file |-> None,
     gmail_token |-> "absent"]

\* The locals of a script run before any run: the button clicked, the widget
\* values, the fields of the agent, the generated email, the steps done so
\* far, and the history and analysis result the session had at its start.
NoRun ==
    [count |-> 0,
     click |-> "none",
     uploaded_file |-> None,
     manual_job_desc |-> <<>>,
     recipient_email |-> "",
     resume_text |-> None,
     resume_file_path |-> None,
     job_description |-> None,
     gmail_credentials |-> "none",
     gmail_status |-> FALSE,
     email_content |-> None,
     trace |-> <<>>,
     before |-> [activity_history |-> <<>>, analysis_result |-> None]]

-----------------------------------------------------------------------------
(* The agent and its callers: any entry point may be called at any time,    *)
(* with any outcome of the external capabilities.                          *)

\* The generated emails the model may return: a Subject line with a greeting
\* and a closing, a Subject line in quotes, a keyword line, neither, a
\* Subject line that holds only quotes, and a response that is not text.
EmailTexts ==
    {<<"S", "u", "b", "j", "e", "c", "t", ":", " ", "D", "a", "t", "a", " ", "R", "o", "l", "e", "\n", "\n", "D", "e", "a", "r", " ", "T", "e", "a", "m", "\n", "I", " ", "c", "o", "d", "e", ".", "\n", "\n", "S", "i", "n", "c", "e", "r", "e", "l", "y", ",", "\n", "J", "o", "h", "n", " ", "S", "m", "i", "t", "h">>,
     <<"S", "U", "B", "J", "E", "C", "T", ":", " ", "\"", "H", "i", "\"", " ", "\n", "B", "o", "d", "y">>,
     <<"M", "y", " ", "j", "o", "b", "\n", "B", "o", "d", "y">>,
     <<"H", "e", "l", "l", "o", "\n", "t", "h", "e", "r", "e">>,
     <<"S", "u", "b", "j", "e", "c", "t", ":", " ", "\"", "\"", "\n", "B", "o", "d", "y">>}
EmailResponses ==
    {[raised |-> TRUE, is_text |-> TRUE, content |-> <<>>],
     [raised |-> FALSE, is_text |-> FALSE, content |-> <<>>]}
        \cup {[raised |-> FALSE, is_text |-> TRUE, content |-> t] : t \in EmailTexts}
GenerateEnv == [ctor : {"ok", "raise"}, llm : EmailResponses]

\* A generated email that repeats the resume text of its prompt after the
\* subject line
EchoEmail(rt) == <<"S", "u", "b", "j", "e", "c", "t", ":", " ", "H", "i", "\n", "\n">> \o Prefix(rt, EmailPromptCap)
\* What the generation may do for this resume: the prompt holds the resume
\* text, so the generated email may repeat it.
GenerateEnvOf(rt) ==
    GenerateEnv \cup
        {[ctor |-> "ok",
          llm |-> [raised |-> FALSE, is_text |-> TRUE, content |-> EchoEmail(rt[1])]] :
             x \in IF rt # None /\ rt[1] # <<>> THEN {rt} ELSE {}}

EmailContents == {[subject |-> <<"H", "i">>, body |-> <<"D", "e", "a", "r", " ", "T", "e", "a", "m", ",", "\n", "\n", "H", "e", "l", "l", "o">>]}

\* What is recorded of a completed call: the entry point, its outcome, the
\* calls of llm.invoke and of the Gmail API it made, and what it found when
\* it was called.
Call(op, r, pre) ==
    [op |-> op, out |-> r.out, llm |-> r.llm, mail |-> r.mail,
     creds |-> pre.creds, exists |-> pre.exists, action |-> pre.action,
     rt |-> pre.rt, jd |-> pre.jd]

NoCalls == [llm |-> <<>>, mail |-> <<>>]
Present(optText) == optText # None /\ Len(optText[1]) > 0
Pre(optPath, action) ==
    [creds |-> gmail_credentials,
     exists |-> IF optPath = None THEN "raise"
                ELSE IF fs[optPath[1]] = "absent" THEN "false" ELSE "true",
     action |-> action,
     rt |-> Present(resume_text),
     jd |-> Present(job_description)]
NoPath == Some("docs/cv.pdf")

Init ==
    /\ resume_text = None
    /\ resume_file_path = None
    /\ job_description = None
    /\ gmail_credentials = "none"
    /\ credentials_content = FALSE
    /\ gmail_token = "absent"
    /\ credentials_file = FALSE
    /\ fs = [p \in Paths |-> "absent"]
    /\ last = Call("none", [out |-> Return(TRUE, NoPayload), llm |-> <<>>, mail |-> <<>>],
                   [creds |-> "none", exists |-> "false", action |-> "none",
                    rt |-> FALSE, jd |-> FALSE])
    /\ activity_history = None
    /\ added = <<>>
    /\ clock = 0
    /\ raw_text = <<>>
    /\ parsed = None
    /\ letter = <<>>
    /\ formatted = <<>>
    /\ reflowed = None
    /\ basic = None
    /\ pc = [s \in Sessions |-> "idle"]
    /\ run = [s \in Sessions |-> NoRun]
    /\ session_state = [s \in Sessions |-> NewSession]
    /\ writer = [p \in Paths |-> 0]

\* JobApplicationAgent(...): every script run constructs a new agent
NewAgent ==
    /\ resume_text' = None
    /\ resume_file_path' = None
    /\ job_description' = None
    /\ gmail_credentials' = "none"
    /\ UNCHANGED <<sessionVars, fs, last, historyVars, parseVars,
                   formatVars, fallbackVars,
                   mainVars>>

\* The upload of credentials.json in the sidebar
UploadCredentials ==
    /\ credentials_content' = TRUE
    /\ credentials_file' = TRUE
    /\ UNCHANGED <<agentVars, gmail_token, fs, last, historyVars, parseVars,
                   formatVars, fallbackVars,
                   mainVars>>

SetupGmailAuth ==
    \E e \in AuthEnv :
        LET r == setup_gmail_auth(gmail_credentials, credentials_content, gmail_token, e)
        IN  /\ gmail_credentials' = r.creds
            /\ gmail_token' = r.token
            /\ last' = Call("setup_gmail_auth", [out |-> r.out] @@ NoCalls,
                            Pre(NoPath, "none"))
            /\ UNCHANGED <<resume_text, resume_file_path, job_description,
                           credentials_content, credentials_file, fs,
                           historyVars, parseVars,
                   formatVars, fallbackVars,
                   mainVars>>

\* Time passes: the access token of the credentials, and of the session
\* token they were stored as, reaches its expiry (creds.valid turns False).
TokenExpires ==
    /\ gmail_credentials = "valid" \/ gmail_token = "valid"
    /\ gmail_credentials' = IF gmail_credentials = "valid" THEN "invalid"
                            ELSE gmail_credentials
    /\ gmail_token' = IF gmail_token = "valid" THEN "expired" ELSE gmail_token
    /\ UNCHANGED <<resume_text, resume_file_path, job_description,
                   credentials_content, credentials_file, fs, last,
                   historyVars, parseVars,
                   formatVars, fallbackVars,
                   mainVars>>

\* A file of the working directory is removed, or put there, from outside
FileChange ==
    \E p \in Paths, d \in {"absent", "pdfJohn"} :
        /\ fs[p] # d
        /\ fs' = [fs EXCEPT ![p] = d]
        /\ UNCHANGED <<agentVars, sessionVars, last, historyVars, parseVars,
                   formatVars, fallbackVars,
                   mainVars>>

ProcessResume ==
    \E u \in Uploads, w \in WriteOutcomes :
        LET r == process_resume(resume_text, fs, u, w)
        IN  /\ resume_text' = r.resume_text
            /\ resume_file_path' = r.resume_file_path
            /\ fs' = r.fs
            /\ last' = Call("process_resume", [out |-> r.out] @@ NoCalls,
                            Pre(NoPath, "none"))
            /\ UNCHANGED <<job_description, gmail_credentials, sessionVars,
                           historyVars, parseVars,
                   formatVars, fallbackVars,
                   mainVars>>

SetJobDescription ==
    \E input \in JobInputs :
        LET r == set_job_description(job_description, input)
        IN  /\ job_description' = r.job_description
            /\ last' = Call("set_job_description", [out |-> r.out] @@ NoCalls,
                            Pre(NoPath, "none"))
            /\ UNCHANGED <<resume_text, resume_file_path, gmail_credentials,
                           sessionVars, fs, historyVars, parseVars,
                   formatVars, fallbackVars,
                   mainVars>>

AnalyzeJobMatch ==
    \E e \in AnalysisEnv :
        \E order \in Orders(IF Truthy(job_description)
                            THEN WordSet(job_description[1]) ELSE {}) :
            LET r == analyze_job_match(resume_text, job_description, e, order)
            IN  /\ last' = Call("analyze_job_match", r @@ [mail |-> <<>>],
                                Pre(NoPath, "none"))
                /\ UNCHANGED <<agentVars, sessionVars, fs, historyVars, parseVars,
                   formatVars, fallbackVars,
                   mainVars>>

GenerateProfessionalEmail ==
    \E e \in GenerateEnvOf(resume_text) :
        LET r == generate_professional_email(resume_text, job_description, e)
        IN  /\ last' = Call("generate_professional_email", r @@ [mail |-> <<>>],
                            Pre(NoPath, "none"))
            /\ UNCHANGED <<agentVars, sessionVars, fs, historyVars, parseVars,
                   formatVars, fallbackVars,
                   mainVars>>

SendEmail ==
    \E recipient \in Recipients, c \in EmailContents, action \in Actions,
       e \in DispatchEnv :
        LET r == send_email(gmail_credentials, fs, recipient, c,
                            resume_file_path, action, e)
        IN  /\ last' = Call("send_email", r @@ [llm |-> <<>>],
                            Pre(resume_file_path, action))
            /\ UNCHANGED <<agentVars, sessionVars, fs, historyVars, parseVars,
                   formatVars, fallbackVars,
                   mainVars>>

AttachAndSendEmail ==
    \E recipient \in Recipients, c \in EmailContents, action \in Actions,
       e \in DispatchEnv, optPath \in {None} \cup {Some(p) : p \in Paths} :
        LET r == attach_and_send_email(gmail_credentials, fs, recipient, c,
                                       optPath, action, e)
        IN  /\ last' = Call("attach_and_send_email", r @@ [llm |-> <<>>],
                            Pre(optPath, action))
            /\ UNCHANGED <<agentVars, sessionVars, fs, historyVars, parseVars,
                   formatVars, fallbackVars,
                   mainVars>>

Next ==
    \/ NewAgent
    \/ UploadCredentials
    \/ SetupGmailAuth
    \/ TokenExpires
    \/ FileChange
    \/ ProcessResume
    \/ SetJobDescription
    \/ AnalyzeJobMatch
    \/ GenerateProfessionalEmail
    \/ SendEmail
    \/ AttachAndSendEmail

Spec == Init /\ [][Next]_vars

-----------------------------------------------------------------------------
(* Claims about the entry points, checked under Spec *)

DispatchOps == {"send_email", "attach_and_send_email"}
NotFoundMessages == {"Attachment file not found", "Resume file not found for attachment"}
NotConnectedMessages ==
    {"Gmail not connected", "Gmail credentials not available. Please reconnect to Gmail."}
BasicLabel == "BASIC TEXT ANALYSIS (LLM analysis failed)"

Failed(call) == call.out.kind = "return" /\ ~call.out.ok
Succeeded(call) == call.out.kind = "return" /\ call.out.ok

\* C1: an analysis with non-empty inputs whose generation raises or returns
\* fewer than 100 characters returns success with the basic analysis.
C1_FallbackOnFailureOrShort ==
    (/\ last.op = "analyze_job_match"
     /\ last.rt /\ last.jd
     /\ Len(last.llm) = 1
     /\ \/ last.llm[1].response.raised
        \/ Len(last.llm[1].response.content) < MinAnalysisLen)
    => /\ Succeeded(last)
       /\ last.out.payload.analysis # None
       /\ last.out.payload.analysis[1].kind = BasicLabel

\* C2: a dispatch whose attachment path does not exist returns the
\* attachment-not-found failure and calls no operation of the mail API,
\* whatever the state of the credentials.
C2_MissingAttachmentFirst ==
    (last.op \in DispatchOps /\ last.exists = "false")
    => /\ Failed(last)
       /\ last.out.payload.msg \in NotFoundMessages
       /\ last.mail = <<>>

\* C3, as stated: a dispatch with absent or invalid credentials returns a
\* not-connected failure and calls neither operation of the mail API.
C3_Original ==
    (/\ last.op \in DispatchOps
     /\ last.creds \in {"none", "invalid"}
     /\ last.exists \in {"true", "false"})
    => /\ Failed(last)
       /\ last.out.payload.msg \in NotConnectedMessages
       /\ last.mail = <<>>

\* C3, amended: a dispatch with absent or invalid credentials returns a
\* failure and calls neither operation of the mail API; the failure is a
\* not-connected one when no credentials are stored or the attachment exists.
C3_NotConnected ==
    (last.op \in DispatchOps /\ last.creds \in {"none", "invalid"})
    => /\ Failed(last)
       /\ last.mail = <<>>
       /\ (last.creds = "none" \/ last.exists = "true")
              => last.out.payload.msg \in NotConnectedMessages

C3_Witness ==
    /\ last.op = "attach_and_send_email"
    /\ last.creds = "invalid"
    /\ last.exists = "true"
    /\ last.out.payload.msg = "Gmail credentials not available. Please reconnect to Gmail."

\* C4: a dispatch that reaches the mail API calls drafts.create when the
\* action is "draft" and messages.send for any other action, never the other
\* operation, and a success carries the identifier that the call returned.
C4_ActionChoosesOperation ==
    (last.op \in DispatchOps /\ last.mail # <<>>)
    => /\ \A i \in 1..Len(last.mail) :
              last.mail[i].op = IF last.action = "draft" THEN "drafts.create"
                                ELSE "messages.send"
       /\ Succeeded(last)
              => /\ last.out.payload.id = last.mail[Len(last.mail)].returned
                 /\ last.out.payload.msg =
                        IF last.action = "draft"
                        THEN "Draft created successfully with ID"
                        ELSE "Email sent successfully with ID"

C4_Witness ==
    /\ last.op = "attach_and_send_email"
    /\ last.action = "draft"
    /\ Succeeded(last)
    /\ Len(last.mail) = 1
    /\ last.mail[1].op = "drafts.create"
    /\ last.out.payload.id = "id2"

\* C5: a dispatch calls the mail API at most once; when that call fails the
\* dispatch returns a failure, with no second call.
C5_AtMostOneMailCall ==
    last.op \in DispatchOps
    => /\ Len(last.mail) <= 1
       /\ (Len(last.mail) = 1 /\ last.mail[1].returned = "raise") => Failed(last)
       /\ Succeeded(last) => Len(last.mail) = 1

C5_Witness ==
    /\ last.op = "send_email"
    /\ Len(last.mail) = 1
    /\ last.mail[1].returned = "raise"
    /\ last.out.payload.msg = "Error in Gmail API"

\* C6: analysis and email generation return a failure and never call
\* llm.invoke when the resume text or the job description is empty or unset.
C6_MissingInput ==
    (/\ last.op \in {"analyze_job_match", "generate_professional_email"}
     /\ ~last.rt \/ ~last.jd)
    => /\ Failed(last)
       /\ last.llm = <<>>

C6_Witness ==
    /\ last.op = "generate_professional_email"
    /\ resume_text = Some(<<>>)
    /\ job_description # None
    /\ Failed(last)
    /\ last.out.payload.msg = "Resume or job description not available"

\* C7: email generation calls llm.invoke at most once, and exactly once when
\* it succeeds; when that call fails it returns a failure with no subject or
\* body, and no templated email.
C7_SingleAttempt ==
    last.op = "generate_professional_email"
    => /\ Len(last.llm) <= 1
       /\ Succeeded(last) => Len(last.llm) = 1
       /\ (Len(last.llm) = 1 /\ last.llm[1].response.raised)
              => /\ Failed(last)
                 /\ last.out.payload.email = None

C7_Witness ==
    /\ last.op = "generate_professional_email"
    /\ Len(last.llm) = 1
    /\ last.llm[1].response.raised
    /\ last.out.payload.msg = "Error generating email"

EntryPoints == {"process_resume", "set_job_description", "analyze_job_match",
                "generate_professional_email", "send_email", "attach_and_send_email"}

\* C8: every entry point ends by returning a (success flag, payload) pair,
\* whatever the external capabilities do; no exception reaches the caller.
C8_NoExceptionEscapes ==
    last.op \in EntryPoints
    => /\ last.out.kind = "return"
       /\ last.out.ok \in BOOLEAN

C8_Witness ==
    /\ last.op = "process_resume"
    /\ Failed(last)
    /\ last.out.payload.msg = "Error processing resume"

-----------------------------------------------------------------------------
(* The session's activity history: init_session_history, add_to_session_history *)

HistoryCap == 10
MaxAdds == 12
MaxClock == 2

\* init_session_history
init_session_history(history) == IF history = None THEN Some(<<>>) ELSE history

\* Mutant: the cut keeps the ten oldest entries, history[-10:].
add_to_session_history_KeepOldest(history, entry, now) ==
    LET list == <<[timestamp |-> now] @@ entry>> \o init_session_history(history)[1]
    IN  Some(IF Len(list) > HistoryCap
             THEN SubSeq(list, Len(list) - HistoryCap + 1, Len(list))
             ELSE list)

\* add_to_session_history: the entry gets its timestamp, goes to the front of
\* the list, and the list is cut to its first ten entries.
add_to_session_history(history, entry, now) ==
    LET list == <<[timestamp |-> now] @@ entry>> \o init_session_history(history)[1]
    IN  Some(IF Len(list) > HistoryCap THEN SubSeq(list, 1, HistoryCap) ELSE list)

InitSessionHistory ==
    /\ activity_history' = init_session_history(activity_history)
    /\ UNCHANGED <<agentVars, sessionVars, fs, last, added, clock, parseVars,
                   formatVars, fallbackVars,
                   mainVars>>

\* A caller adds a new entry (a fresh dict); added records it as it was stored.
AddToSessionHistory ==
    /\ Len(added) < MaxAdds
    /\ LET entry == [id |-> Len(added) + 1]
       IN  /\ activity_history' = add_to_session_history(activity_history, entry, clock)
           /\ added' = Append(added, [timestamp |-> clock] @@ entry)
    /\ UNCHANGED <<agentVars, sessionVars, fs, last, clock, parseVars,
                   formatVars, fallbackVars,
                   mainVars>>

\* datetime.now() moves on
Tick ==
    /\ clock < MaxClock
    /\ clock' = clock + 1
    /\ UNCHANGED <<agentVars, sessionVars, fs, last, activity_history, added, parseVars,
                   formatVars, fallbackVars,
                   mainVars>>

NextHistory ==
    \/ InitSessionHistory
    \/ AddToSessionHistory
    \/ Tick

SpecHistory == Init /\ [][NextHistory]_vars

\* C9: after n calls of add_to_session_history the history holds exactly the
\* min(n, 10) entries added last, newest first, each as it was stored.
C9_HistoryIsLastTen ==
    LET n == Len(added)
    IN  /\ n > 0 => activity_history # None
        /\ activity_history # None
               => /\ Len(activity_history[1]) = Min(n, HistoryCap)
                  /\ Len(activity_history[1]) <= HistoryCap
                  /\ \A i \in 1..Len(activity_history[1]) :
                         activity_history[1][i] = added[n - i + 1]

C9_Witness ==
    /\ Len(added) = HistoryCap + 2
    /\ activity_history # None
    /\ Len(activity_history[1]) = HistoryCap
    /\ activity_history[1][1].id = HistoryCap + 2
    /\ activity_history[1][HistoryCap].id = 3

-----------------------------------------------------------------------------
(* The email parser on generated texts of up to MaxLines lines *)

MaxLines == 3

ParseLines ==
    {<<"S", "u", "b", "j", "e", "c", "t", ":", " ", "H", "i">>,
     <<"s", "u", "b", "j", "e", "c", "t", ":", "a", ":", "b", " ">>,
     <<"S", "U", "B", "J", "E", "C", "T", ":", " ", "\"", "H", "i", "\"">>,
     <<"S", "u", "b", "j", "e", "c", "t", ":", " ">>,
     <<"S", "u", "b", "j", "e", "c", "t", ":", " ", "'", "x", "'", "\r">>,
     <<" ", "S", "u", "b", "j", "e", "c", "t", ":", " ", "n", "o">>,
     <<>>,
     <<" ", "\t">>,
     <<"D", "e", "a", "r", " ", "T", "e", "a", "m">>,
     <<" ", "B", "o", "d", "y", " ", " ">>,
     <<"M", "y", " ", "j", "o", "b">>,
     <<"S", "u", "b", "j", "e", "c", "t", ":", " ", "'", "\"", "x", "\"", "'">>,
     <<" ", "\"", "T", "h", "e", " ", "R", "o", "l", "e", "\"", " ">>}

\* Texts of four lines: the fourth line is beyond the lines scanned for a keyword
LongTexts ==
    {<<"H", "e", "l", "l", "o", "\n", "t", "h", "e", "r", "e", "\n", "x", "\n", "M", "y", " ", "j", "o", "b">>,
     <<"H", "i", "\n", "\n", "S", "u", "b", "j", "e", "c", "t", ":", " ", "L", "a", "t", "e", "\n", "B", "o", "d", "y">>}

RECURSIVE TextsOf(_)
TextsOf(n) ==
    IF n = 1 THEN ParseLines
    ELSE {line \o <<"\n">> \o text : line \in ParseLines, text \in TextsOf(n - 1)}

ParseTexts == UNION {TextsOf(n) : n \in 1..MaxLines} \cup LongTexts
ParseResumes == {<<"J", "o", "h", "n", " ", "S", "m", "i", "t", "h">>, <<"c", "v">>}

InitParse ==
    /\ resume_text \in {Some(r) : r \in ParseResumes}
    /\ resume_file_path = None
    /\ job_description = None
    /\ gmail_credentials = "none"
    /\ credentials_content = FALSE
    /\ gmail_token = "absent"
    /\ credentials_file = FALSE
    /\ fs = [p \in Paths |-> "absent"]
    /\ last = Call("none", [out |-> Return(TRUE, NoPayload), llm |-> <<>>, mail |-> <<>>],
                   [creds |-> "none", exists |-> "false", action |-> "none",
                    rt |-> FALSE, jd |-> FALSE])
    /\ activity_history = None
    /\ added = <<>>
    /\ clock = 0
    /\ raw_text \in ParseTexts
    /\ parsed = None
    /\ letter = <<>>
    /\ formatted = <<>>
    /\ reflowed = None
    /\ basic = None
    /\ pc = [s \in Sessions |-> "idle"]
    /\ run = [s \in Sessions |-> NoRun]
    /\ session_state = [s \in Sessions |-> NewSession]
    /\ writer = [p \in Paths |-> 0]

\* The generated text is parsed (lines 305-337)
Parse ==
    /\ parsed = None
    /\ parsed' = Some(ParseEmail(raw_text, CandidateName(resume_text[1])))
    /\ UNCHANGED <<agentVars, sessionVars, fs, last, historyVars, raw_text,
                   formatVars, fallbackVars,
                   mainVars>>

NextParse == Parse

SpecParse == InitParse /\ [][NextParse]_vars

\* The lines of the generated text, and what the claims say of them
RawLines == SplitOn(raw_text, "\n")
\* X of a line "Subject: X"
SubjectText(line) == SubSeq(line, Len(SubjectPrefix) + 1, Len(line))
SubjectLines == {i \in 1..Len(RawLines) : StartsWith(Lower(RawLines[i]), SubjectPrefix)}
NonBlankSubjectLines == {i \in SubjectLines : Strip(SubjectText(RawLines[i])) # <<>>}
Least(S) == CHOOSE x \in S : \A y \in S : x <= y
\* The text from the first non-blank line after line i onward
TextAfter(i) ==
    LET later == {j \in (i + 1)..Len(RawLines) : Strip(RawLines[j]) # <<>>}
    IN  IF later = {} THEN <<>>
        ELSE Join(SubSeq(RawLines, Least(later), Len(RawLines)), <<"\n">>)

\* C10, as stated: for a text with a line "Subject: X", X non-blank, the
\* subject is X trimmed and the body is the text from the first non-blank
\* line after that line onward.
C10_Original ==
    (parsed # None /\ NonBlankSubjectLines # {})
    => LET i == Least(NonBlankSubjectLines)
       IN  /\ parsed[1].subject = Strip(SubjectText(RawLines[i]))
           /\ parsed[1].body = TextAfter(i)

\* C10, amended: when the first line with the prefix "subject:" has a
\* non-blank X, the subject is X trimmed, then without its surrounding double
\* quotes, then single quotes, then whitespace; the body is the text from the
\* first non-blank line after that line onward, trimmed, so it starts with
\* neither the subject line nor a blank line.
C10_SubjectBranch ==
    (parsed # None /\ SubjectLines # {}
        /\ Least(SubjectLines) \in NonBlankSubjectLines)
    => LET i == Least(SubjectLines)
           x == Strip(SubjectText(RawLines[i]))
       IN  /\ parsed[1].subject = Strip(StripChars(StripChars(x, {"\""}), {"'"}))
           /\ parsed[1].body = Strip(TextAfter(i))
           /\ parsed[1].body # <<>> => ~IsSpace(parsed[1].body[1])

C10_Witness ==
    /\ parsed # None
    /\ raw_text = <<"S", "u", "b", "j", "e", "c", "t", ":", " ", "H", "i", "\n", "\n", "D", "e", "a", "r", " ", "T", "e", "a", "m">>
    /\ parsed[1].subject = <<"H", "i">>
    /\ parsed[1].body = <<"D", "e", "a", "r", " ", "T", "e", "a", "m">>

\* x without its surrounding double quotes, then single quotes, then whitespace
Unquoted(x) == Strip(StripChars(StripChars(x, {"\""}), {"'"}))
\* The lines among the first three that hold a keyword
KeywordLines ==
    {i \in 1..Min(3, Len(RawLines)) :
        \E k \in SubjectKeywords : Contains(Lower(RawLines[i]), k)}
QuoteOrSpace == {"\"", "'", " ", "\n", "\r", "\t"}

\* C11: whenever the text has a line with the prefix "subject:", the first
\* branch decides: the subject is the (cleaned) text after the first colon of
\* the first such line, and the body is the text after that line, never the
\* whole text.
C11_BranchOneDecides ==
    (parsed # None /\ SubjectLines # {})
    => LET i == Least(SubjectLines)
       IN  /\ parsed[1].subject = Unquoted(Strip(SubjectText(RawLines[i])))
           /\ parsed[1].body = Strip(TextAfter(i))

\* C12, as stated: with no "subject:" line and a keyword in one of the first
\* three lines, the subject is the first such line and the body is the raw
\* text verbatim.
C12_Original ==
    (parsed # None /\ SubjectLines = {} /\ KeywordLines # {})
    => /\ parsed[1].subject = RawLines[Least(KeywordLines)]
       /\ parsed[1].body = raw_text

\* C12, amended: with no "subject:" line and a keyword in one of the first
\* three lines, the subject is the first such line, trimmed and without its
\* surrounding quotes, and the body is the whole raw text, that line
\* included, with its surrounding whitespace trimmed.
C12_KeywordBranch ==
    (parsed # None /\ SubjectLines = {} /\ KeywordLines # {})
    => /\ parsed[1].subject = Unquoted(Strip(RawLines[Least(KeywordLines)]))
       /\ parsed[1].body = Strip(raw_text)

C12_Witness ==
    /\ parsed # None
    /\ raw_text = <<" ", "\"", "T", "h", "e", " ", "R", "o", "l", "e", "\"", " ", "\n", "M", "y", " ", "j", "o", "b", "\n", " ", "B", "o", "d", "y", " ", " ">>
    /\ parsed[1].subject = <<"T", "h", "e", " ", "R", "o", "l", "e">>
    /\ parsed[1].body = <<"\"", "T", "h", "e", " ", "R", "o", "l", "e", "\"", " ", "\n", "M", "y", " ", "j", "o", "b", "\n", " ", "B", "o", "d", "y">>

\* C13, as stated: with no "subject:" line and no keyword in the first three
\* lines, the subject is "Job Application - " and the candidate name, and the
\* body is the raw text.
C13_Original ==
    (parsed # None /\ SubjectLines = {} /\ KeywordLines = {})
    => /\ parsed[1].subject = DefaultSubjectPrefix \o CandidateName(resume_text[1])
       /\ parsed[1].body = raw_text

\* C13, amended: with no "subject:" line and no keyword in the first three
\* lines, the subject is "Job Application - " and the candidate name (or
\* "Applicant"), and the body is the raw text with its surrounding whitespace
\* trimmed.
C13_DefaultBranch ==
    (parsed # None /\ SubjectLines = {} /\ KeywordLines = {})
    => /\ parsed[1].subject \in {DefaultSubjectPrefix \o <<"J", "o", "h", "n", " ", "S", "m", "i", "t", "h">>,
                                 DefaultSubjectPrefix \o DefaultName}
       /\ parsed[1].subject = DefaultSubjectPrefix \o CandidateName(resume_text[1])
       /\ parsed[1].body = Strip(raw_text)

C13_Witness ==
    /\ parsed # None
    /\ raw_text = <<"H", "e", "l", "l", "o", "\n", "t", "h", "e", "r", "e", "\n", "x", "\n", "M", "y", " ", "j", "o", "b">>
    /\ resume_text = Some(<<"J", "o", "h", "n", " ", "S", "m", "i", "t", "h">>)
    /\ parsed[1].subject = <<"J", "o", "b", " ", "A", "p", "p", "l", "i", "c", "a", "t", "i", "o", "n", " ", "-", " ", "J", "o", "h", "n", " ", "S", "m", "i", "t", "h">>
    /\ parsed[1].body = <<"H", "e", "l", "l", "o", "\n", "t", "h", "e", "r", "e", "\n", "x", "\n", "M", "y", " ", "j", "o", "b">>

\* C14: the subject the parser returns neither begins nor ends with a double
\* quote, a single quote or a whitespace character.
C14_SubjectHasNoSurroundingQuotes ==
    (parsed # None /\ parsed[1].subject # <<>>)
    => /\ parsed[1].subject[1] \notin QuoteOrSpace
       /\ parsed[1].subject[Len(parsed[1].subject)] \notin QuoteOrSpace

-----------------------------------------------------------------------------
(* The letter formatter on bodies of up to MaxLines lines *)

MaxPasses == 2

FormatLines ==
    {<<"D", "e", "a", "r", " ", "B", "o", "b">>,
     <<"D", "e", "a", "r">>,
     <<>>,
     <<" ", "\t">>,
     <<" ", "I", " ", "c", "o", "d", "e", ".", " ">>,
     <<"S", "i", "n", "c", "e", "r", "e", "l", "y", ",">>,
     <<"J", "o", "h", "n", " ", "S", "m", "i", "t", "h">>,
     <<"x", "\r">>}

RECURSIVE BodiesOf(_)
BodiesOf(n) ==
    IF n = 1 THEN FormatLines
    ELSE {line \o <<"\n">> \o text : line \in FormatLines, text \in BodiesOf(n - 1)}

\* Bodies of four lines: a letter with its closing, and two paragraphs
LongBodies ==
    {<<"T", "h", "a", "n", "k", "s", ".", "\n", "\n", "S", "i", "n", "c", "e", "r", "e", "l", "y", ",", "\n", "J", "o", "h", "n", " ", "S", "m", "i", "t", "h">>,
     <<" ", "I", " ", "c", "o", "d", "e", ".", " ", "\n", "x", "\r", "\n", "\n", "J", "o", "h", "n", " ", "S", "m", "i", "t", "h">>}

FormatBodies == UNION {BodiesOf(n) : n \in 1..MaxLines} \cup LongBodies

InitFormat ==
    /\ resume_text = None
    /\ resume_file_path = None
    /\ job_description = None
    /\ gmail_credentials = "none"
    /\ credentials_content = FALSE
    /\ gmail_token = "absent"
    /\ credentials_file = FALSE
    /\ fs = [p \in Paths |-> "absent"]
    /\ last = Call("none", [out |-> Return(TRUE, NoPayload), llm |-> <<>>, mail |-> <<>>],
                   [creds |-> "none", exists |-> "false", action |-> "none",
                    rt |-> FALSE, jd |-> FALSE])
    /\ activity_history = None
    /\ added = <<>>
    /\ clock = 0
    /\ raw_text = <<>>
    /\ parsed = None
    /\ letter \in FormatBodies
    /\ formatted = <<>>
    /\ reflowed = None
    /\ basic = None
    /\ pc = [s \in Sessions |-> "idle"]
    /\ run = [s \in Sessions |-> NoRun]
    /\ session_state = [s \in Sessions |-> NewSession]
    /\ writer = [p \in Paths |-> 0]

\* _format_business_letter is applied to the body, or to its last result
FormatBusinessLetter ==
    /\ Len(formatted) < MaxPasses
    /\ formatted' = Append(formatted,
                           format_business_letter(IF formatted = <<>> THEN letter
                                                  ELSE formatted[Len(formatted)]))
    /\ UNCHANGED <<agentVars, sessionVars, fs, last, historyVars, parseVars,
                   letter, reflowed, fallbackVars,
                   mainVars>>

\* _format_text_paragraphs is applied to the body
FormatTextParagraphs ==
    /\ reflowed = None
    /\ reflowed' = Some(format_text_paragraphs(letter))
    /\ UNCHANGED <<agentVars, sessionVars, fs, last, historyVars, parseVars,
                   letter, formatted, fallbackVars,
                   mainVars>>

NextFormat ==
    \/ FormatBusinessLetter
    \/ FormatTextParagraphs

SpecFormat == InitFormat /\ [][NextFormat]_vars

\* The lines of the body, and its non-blank lines in order
BodyLines == SplitOn(letter, "\n")
IsBlank(line) == \A i \in 1..Len(line) : IsSpace(line[i])
NonBlank == SelectSeq([i \in 1..Len(BodyLines) |-> i], LAMBDA i : ~IsBlank(BodyLines[i]))
NoBlankRun(text) ==
    LET out == SplitOn(text, "\n")
    IN  \A i \in 1..(Len(out) - 1) : ~(IsBlank(out[i]) /\ IsBlank(out[i + 1]))

\* C15: formatting an already formatted text returns it unchanged.
C15_Idempotent ==
    Len(formatted) >= 2 => formatted[2] = formatted[1]

\* The trimmed non-blank lines idx of the body: neighbours in the body are
\* joined by a space, the others by one blank line.
RECURSIVE ReflowOf(_)
ReflowOf(idx) ==
    IF idx = <<>> THEN <<>>
    ELSE IF Len(idx) = 1 THEN Strip(BodyLines[idx[1]])
    ELSE Strip(BodyLines[idx[1]])
             \o (IF idx[2] = idx[1] + 1 THEN <<" ">> ELSE <<"\n", "\n">>)
             \o ReflowOf(Tail(idx))

\* C16: each run of consecutive non-blank lines becomes one paragraph of its
\* trimmed lines joined by a space, paragraphs are joined by exactly one blank
\* line, the output has no leading or trailing blank line and no two
\* consecutive blank lines, and the non-blank lines keep their order.
C16_Reflow ==
    reflowed # None
    => LET out == SplitOn(reflowed[1], "\n")
       IN  /\ reflowed[1] = ReflowOf(NonBlank)
           /\ reflowed[1] # <<>> => ~IsBlank(out[1]) /\ ~IsBlank(out[Len(out)])
           /\ NoBlankRun(reflowed[1])
           /\ SplitWords(reflowed[1]) = SplitWords(letter)
           /\ NonBlank = <<>> <=> reflowed[1] = <<>>

C16_Witness ==
    /\ letter = <<" ", "I", " ", "c", "o", "d", "e", ".", " ", "\n", "x", "\r", "\n", "\n", "J", "o", "h", "n", " ", "S", "m", "i", "t", "h">>
    /\ reflowed = Some(<<"I", " ", "c", "o", "d", "e", ".", " ", "x", "\n", "\n", "J", "o", "h", "n", " ", "S", "m", "i", "t", "h">>)

IsNameLike(line) ==
    /\ ~IsBlank(line)
    /\ \A i \in 1..Len(line) : IsAlpha(line[i]) \/ line[i] = " "

\* The body ends with a closing token on a line and a name-like line after it
EndsWithClosing ==
    /\ Len(NonBlank) >= 2
    /\ NonBlank[Len(NonBlank)] = NonBlank[Len(NonBlank) - 1] + 1
    /\ Strip(BodyLines[NonBlank[Len(NonBlank) - 1]]) \in ClosingTokens
    /\ IsNameLike(BodyLines[NonBlank[Len(NonBlank)]])

\* C17: for a body that ends with a closing token and a name-like line, the
\* output ends with the token on a line of its own and the name on the next,
\* with exactly one blank line between the text before and the token, and
\* with no other blank line added, at the start of the output included.
C17_Closing ==
    (Len(formatted) >= 1 /\ EndsWithClosing)
    => LET out == SplitOn(formatted[1], "\n")
           n == Len(out)
       IN  /\ n >= 2
           /\ out[n] = Strip(BodyLines[NonBlank[Len(NonBlank)]])
           /\ out[n - 1] \in ClosingTokens
           /\ ~IsBlank(out[1])
           /\ NoBlankRun(formatted[1])
           /\ Len(NonBlank) > 2
                  => n >= 4 /\ IsBlank(out[n - 2]) /\ ~IsBlank(out[n - 3])

-----------------------------------------------------------------------------
(* The fallback analysis, _basic_text_analysis, on resumes and job texts    *)

MaxPermuted == 4
LongJobWords == ImportantCap + 1

\* The words "worda", "wordb", ...: alphabetic and longer than four characters
Keyword(i) == <<"w", "o", "r", "d", LowerChars[i]>>
KeywordText(n) == Join([i \in 1..n |-> Keyword(i)], <<" ">>)

\* The texts made of the words of a pool, in the order of the pool
RECURSIVE TextsOfPool(_)
TextsOfPool(pool) ==
    IF pool = <<>> THEN {<<>>}
    ELSE LET rest == TextsOfPool(Tail(pool))
         IN  rest \cup {Head(pool)} \cup {Head(pool) \o <<" ">> \o t : t \in rest \ {<<>>}}

JobPool == <<<<"W", "o", "r", "d", "a">>, <<"s", "q", "l">>, <<"n", "o", "d", "e", ".", "j", "s">>, <<"w", "o", "r", "d", "b">>>>
ResumePool == <<<<"w", "o", "r", "d", "a">>, <<"S", "Q", "L">>, <<"w", "o", "r", "d", "b">>>>
\* The job texts: the texts of the pool, and one of 21 keywords
FallbackJobs == (TextsOfPool(JobPool) \ {<<>>}) \cup {KeywordText(LongJobWords)}
\* The resumes: the texts of the pool, one with the first 20 of the 21
\* keywords, and one with none of them
FallbackResumes ==
    (TextsOfPool(ResumePool) \ {<<>>}) \cup {KeywordText(ImportantCap), <<"j", "a", "v", "a">>}

\* The words of seq in the order of their first occurrence
RECURSIVE Distinct(_)
Distinct(seq) ==
    IF seq = <<>> THEN <<>>
    ELSE LET r == Distinct(SubSeq(seq, 1, Len(seq) - 1))
         IN  IF seq[Len(seq)] \in Range(r) THEN r ELSE Append(r, seq[Len(seq)])

Rotations(seq) ==
    {SubSeq(seq, k, Len(seq)) \o SubSeq(seq, 1, k - 1) : k \in 1..Len(seq)}

\* Orders in which the run may iterate over set(text.lower().split()): every
\* order for up to MaxPermuted words, and for more words the order of first
\* occurrence and its rotations.
IterationOrders(text) ==
    IF Cardinality(WordSet(text)) <= MaxPermuted THEN Orders(WordSet(text))
    ELSE Rotations(Distinct(SplitWords(Lower(text))))

InitFallback ==
    /\ resume_text \in {Some(r) : r \in FallbackResumes}
    /\ resume_file_path = None
    /\ job_description \in {Some(j) : j \in FallbackJobs}
    /\ gmail_credentials = "none"
    /\ credentials_content = FALSE
    /\ gmail_token = "absent"
    /\ credentials_file = FALSE
    /\ fs = [p \in Paths |-> "absent"]
    /\ last = Call("none", [out |-> Return(TRUE, NoPayload), llm |-> <<>>, mail |-> <<>>],
                   [creds |-> "none", exists |-> "false", action |-> "none",
                    rt |-> FALSE, jd |-> FALSE])
    /\ activity_history = None
    /\ added = <<>>
    /\ clock = 0
    /\ raw_text = <<>>
    /\ parsed = None
    /\ letter = <<>>
    /\ formatted = <<>>
    /\ reflowed = None
    /\ basic = None
    /\ pc = [s \in Sessions |-> "idle"]
    /\ run = [s \in Sessions |-> NoRun]
    /\ session_state = [s \in Sessions |-> NewSession]
    /\ writer = [p \in Paths |-> 0]

\* _basic_text_analysis runs, iterating over job_words in one of its orders
BasicTextAnalysis ==
    /\ basic = None
    /\ \E order \in IterationOrders(job_description[1]) :
           basic' = Some(basic_text_analysis(job_description[1], resume_text[1], order))
    /\ UNCHANGED <<agentVars, sessionVars, fs, last, historyVars, parseVars, formatVars,
                   mainVars>>

NextFallback == BasicTextAnalysis

SpecFallback == InitFallback /\ [][NextFallback]_vars

\* The lower-cased whitespace tokens of the two texts
JobWords == {Lower(w) : w \in Range(SplitWords(job_description[1]))}
ResumeWords == {Lower(w) : w \in Range(SplitWords(resume_text[1]))}
\* round(a / n): the nearest integer, a tie going to the even one
Round(a, n) ==
    LET q == a \div n
        r == a % n
    IN  IF 2 * r > n THEN q + 1
        ELSE IF 2 * r < n THEN q
        ELSE IF q % 2 = 0 THEN q ELSE q + 1

\* C18: the reported percentage is min(100, round(100 * |jobWords \cap
\* resumeWords| / |jobWords|)), 0 for no job words, an integer in 0..100.
C18_RoundedPercentage ==
    basic # None
    => /\ basic[1].match_percentage \in 0..100
       /\ JobWords = {} => basic[1].match_percentage = 0
       /\ JobWords # {}
              => basic[1].match_percentage =
                     Min(100, Round(100 * Cardinality(JobWords \cap ResumeWords),
                                    Cardinality(JobWords)))

\* The job words longer than four characters, alphabetic, absent from the resume
Candidates ==
    {w \in JobWords : /\ Len(w) > 4
                      /\ \A i \in 1..Len(w) : IsAlpha(w[i])
                      /\ w \notin ResumeWords}

\* C19: every displayed missing keyword is such a candidate, min(10, number
\* of candidates) of them are displayed, and "None identified" (an empty
\* list) is shown only when there is no candidate.
C19_MissingKeywords ==
    basic # None
    => /\ \A i \in 1..Len(basic[1].missing) : basic[1].missing[i] \in Candidates
       /\ Len(basic[1].missing) = Min(10, Cardinality(Candidates))
       /\ basic[1].missing = <<>> => Candidates = {}

-----------------------------------------------------------------------------
(* The generated email and the resume text, checked under Spec *)

\* C20: the body of a successful result of generate_professional_email does
\* not contain the resume text.
C20_BodyOmitsResume ==
    (last.op = "generate_professional_email" /\ Succeeded(last))
    => ~Contains(last.out.payload.email[1].body, resume_text[1])

\* C25: the subject of a successful result of generate_professional_email is
\* not empty.
C25_SubjectNotEmpty ==
    (last.op = "generate_professional_email" /\ Succeeded(last))
    => last.out.payload.email[1].subject # <<>>

-----------------------------------------------------------------------------
(* main: a script run of a session, step by step. The steps of two sessions *)
(* that run in the same working directory may interleave.                   *)

MaxActions == 2
JobTitleCap == 100

EmailClicks == {"draft", "send"}
ActionClicks == {"analyze", "draft", "send"}

\* clear_session_data: the listed keys are deleted
clear_session_data(ss) ==
    [ss EXCEPT !.keys = @ \ keys_to_clear,
               !.activity_history = <<>>,
               !.analysis_result = None,
               !.email_content = None,
               !.job_desc_text = <<>>,
               !.recipient_email_text = "",
               !.uploaded_file = None]

\* The sidebar of main (lines 698-741): an uploaded credentials file is saved
\* and stored in the session; without credentials.json the script stops;
\* else a new agent is made, Gmail is set up and the history is initialised.
ScriptTop(ss, cred_file, cred_upload, ae) ==
    LET ss1 == IF cred_upload
               THEN [ss EXCEPT !.keys = @ \cup {"credentials_content"}] ELSE ss
        file1 == cred_file \/ cred_upload
        r == setup_gmail_auth("none", "credentials_content" \in ss1.keys,
                              ss1.gmail_token, ae)
    IN  IF ~file1
        THEN [stopped |-> TRUE, ss |-> ss1, credentials_file |-> file1,
              gmail_credentials |-> "none", gmail_status |-> FALSE]
        ELSE [stopped |-> FALSE,
              ss |-> [ss1 EXCEPT !.gmail_token = r.token,
                                 !.keys = (IF r.token # "absent"
                                           THEN @ \cup {"gmail_token"} ELSE @)
                                              \cup {"activity_history"}],
              credentials_file |-> file1,
              gmail_credentials |-> r.creds,
              gmail_status |-> r.out.ok]

\* The three inputs (lines 842-880): the values of the widgets are stored in
\* the session
StoreInputs(ss, uploaded_file, manual_job_desc, recipient_email) ==
    [ss EXCEPT !.keys = @ \cup {"job_desc_text", "recipient_email_text"}
                          \cup (IF uploaded_file # None
                                THEN {"uploaded_file_data", "uploaded_file_name"}
                                ELSE {}),
               !.uploaded_file = IF uploaded_file # None THEN uploaded_file ELSE @,
               !.job_desc_text = manual_job_desc,
               !.recipient_email_text = recipient_email]

\* Lines 919-922: the result keys are created
InitResults(ss) == [ss EXCEPT !.keys = @ \cup {"analysis_result", "email_content"}]

\* The validation of the inputs (lines 925-941): TRUE when no st.stop() is met
InputsValid(ss, click, uploaded_file, manual_job_desc, recipient_email, gmail_status) ==
    /\ ~(uploaded_file = None /\ "uploaded_file_data" \notin ss.keys)
    /\ manual_job_desc # <<>>
    /\ click \in EmailClicks => recipient_email # "" /\ gmail_status

\* Mutant: the email steps follow the analysis whatever button was clicked.
AfterStep_EmailAlways(click, step, ok) ==
    IF ~ok THEN "idle"
    ELSE CASE step = "resume" -> "job"
           [] step = "job" -> "analysis"
           [] step = "analysis" -> "generate"
           [] step = "generate" -> "dispatch"
           [] step = "dispatch" -> "idle"

\* Where the script goes after a step (lines 975-1063): a failed step stops
\* it; the email steps follow the analysis for the draft and send buttons.
AfterStep(click, step, ok) ==
    IF ~ok THEN "idle"
    ELSE CASE step = "resume" -> "job"
           [] step = "job" -> "analysis"
           [] step = "analysis" -> IF click \in EmailClicks THEN "generate" ELSE "idle"
           [] step = "generate" -> "dispatch"
           [] step = "dispatch" -> "idle"

\* A step as the run records it: its name, whether it succeeded, the calls
\* of llm.invoke and of the mail API it made
StepDone(step, r) ==
    [step |-> step, ok |-> r.out.kind = "return" /\ r.out.ok, llm |-> r.llm, mail |-> r.mail]

\* The entries main hands to add_to_session_history
AnalysisEntry(analysis, manual_job_desc) ==
    [type |-> "analysis", status |-> "completed", summary |-> analysis,
     job_title |-> Prefix(manual_job_desc, JobTitleCap),
     recipient |-> "", subject |-> <<>>, body |-> <<>>, action |-> ""]
EmailEntry(recipient_email, email_content, action) ==
    [type |-> "email", status |-> "success", summary |-> None, job_title |-> <<>>,
     recipient |-> recipient_email, subject |-> email_content.subject,
     body |-> email_content.body, action |-> action]

\* st.session_state.activity_history after add_to_session_history(entry)
HistoryAdd(ss, entry, now) ==
    [ss EXCEPT !.keys = @ \cup {"activity_history"},
               !.activity_history =
                   add_to_session_history(IF "activity_history" \in ss.keys
                                          THEN Some(@) ELSE None, entry, now)[1]]

\* Mutant: the analysis is stored and recorded for every button.
AnalysisEffects_Always(ss, click, ok, analysis, manual_job_desc, now) ==
    IF ~ok THEN ss
    ELSE HistoryAdd([ss EXCEPT !.keys = @ \cup {"analysis_result", "show_analysis"},
                               !.analysis_result = analysis,
                               !.show_analysis = TRUE],
                    AnalysisEntry(analysis, manual_job_desc), now)

\* Lines 1000-1015: what the session keeps of a successful analysis
AnalysisEffects(ss, click, ok, analysis, manual_job_desc, now) ==
    IF ~ok THEN ss
    ELSE IF click = "analyze"
    THEN HistoryAdd([ss EXCEPT !.keys = @ \cup {"analysis_result", "show_analysis"},
                               !.analysis_result = analysis,
                               !.show_analysis = TRUE],
                    AnalysisEntry(analysis, manual_job_desc), now)
    ELSE [ss EXCEPT !.keys = @ \cup {"show_analysis"}, !.show_analysis = FALSE]

\* Lines 1044-1060: a successful dispatch is recorded in the history
DispatchEffects(ss, ok, recipient_email, email_content, action, now) ==
    IF ok THEN HistoryAdd(ss, EmailEntry(recipient_email, email_content, action), now)
    ELSE ss

\* The inputs of the script runs: a resume with text and a scan without, and
\* of the generated emails the complete letter
MainUploads == {u \in Uploads : u.data \in {"pdfJohn", "pdfScan"}}
LetterText == CHOOSE t \in EmailTexts : \A u \in EmailTexts : Len(u) <= Len(t)
MainGenerateEnv ==
    {e \in GenerateEnv : e.llm.raised \/ ~e.llm.is_text \/ e.llm.content = LetterText}

\* What the user and the outside world may do in a script run
FullEnv ==
    [clicks |-> {"none", "clear"} \cup ActionClicks,
     uploads |-> {None} \cup {Some(u) : u \in MainUploads},
     jobs |-> {<<>>, <<" ", "\n">>, JobText},
     recipients |-> {"", "hr@corp.example"},
     cred_uploads |-> BOOLEAN,
     auth |-> AuthEnv,
     write |-> WriteOutcomes,
     analysis |-> AnalysisEnv,
     generate |-> MainGenerateEnv,
     dispatch |-> DispatchEnv,
     expiry |-> BOOLEAN,
     remove |-> {"ok", "raise"}]

\* A script run starts: the sidebar, then the button that was clicked. The
\* clear button is handled in the sidebar; for the other buttons the inputs
\* are stored and validated.
Start(s, E) ==
    /\ pc[s] = "idle"
    /\ run[s].count < MaxActions
    /\ \E click \in E.clicks, uploaded_file \in E.uploads, manual_job_desc \in E.jobs,
          recipient_email \in E.recipients, cred_upload \in E.cred_uploads,
          ae \in E.auth :
        LET top == ScriptTop(session_state[s], credentials_file, cred_upload, ae)
            stored == StoreInputs(top.ss, uploaded_file, manual_job_desc, recipient_email)
            valid == InputsValid(InitResults(stored), click, uploaded_file,
                                 manual_job_desc, recipient_email, top.gmail_status)
            ss == IF top.stopped \/ click = "clear" THEN top.ss
                  ELSE IF click \in ActionClicks THEN InitResults(stored)
                  ELSE stored
        IN  /\ credentials_file' = top.credentials_file
            /\ session_state' = [session_state EXCEPT ![s] = ss]
            /\ pc' = [pc EXCEPT ![s] =
                         IF top.stopped THEN "idle"
                         ELSE IF click = "clear" THEN "clear"
                         ELSE IF click \in ActionClicks /\ valid THEN "resume"
                         ELSE "idle"]
            /\ run' = [run EXCEPT ![s] =
                          [NoRun EXCEPT !.count = run[s].count + 1,
                                        !.click = IF top.stopped THEN "none" ELSE click,
                                        !.uploaded_file = uploaded_file,
                                        !.manual_job_desc = manual_job_desc,
                                        !.recipient_email = recipient_email,
                                        !.gmail_credentials = top.gmail_credentials,
                                        !.gmail_status = top.gmail_status,
                                        !.before = [activity_history |-> ss.activity_history,
                                                    analysis_result |-> ss.analysis_result]]]
    /\ UNCHANGED <<agentVars, credentials_content, gmail_token, fs, last, historyVars,
                   parseVars, formatVars, fallbackVars, writer>>

\* The clear button: clear_session_data, with the removal of credentials.json
ClearSessionData(s, E) ==
    /\ pc[s] = "clear"
    /\ \E rm \in E.remove :
        /\ session_state' = [session_state EXCEPT ![s] = clear_session_data(@)]
        /\ credentials_file' = IF rm = "ok" THEN FALSE ELSE credentials_file
    /\ pc' = [pc EXCEPT ![s] = "cleared"]
    /\ UNCHANGED <<agentVars, credentials_content, gmail_token, fs, last, historyVars,
                   parseVars, formatVars, fallbackVars, run, writer>>

\* st.rerun() after the clearing
Rerun(s) ==
    /\ pc[s] = "cleared"
    /\ pc' = [pc EXCEPT ![s] = "idle"]
    /\ UNCHANGED <<agentVars, sessionVars, fs, last, historyVars, parseVars, formatVars,
                   fallbackVars, run, session_state, writer>>

\* Step 1: the resume of the widget, or of the session, is processed
StepResume(s, E) ==
    /\ pc[s] = "resume"
    /\ \E w \in E.write :
        LET file == IF run[s].uploaded_file # None THEN run[s].uploaded_file[1]
                    ELSE session_state[s].uploaded_file[1]
            r == process_resume(run[s].resume_text, fs, file, w)
            done == StepDone("resume", r @@ NoCalls)
        IN  /\ fs' = r.fs
            /\ writer' = IF w = "open_raises" THEN writer
                         ELSE [writer EXCEPT ![ResumePath(file.name)] = s]
            /\ run' = [run EXCEPT ![s].resume_text = r.resume_text,
                                  ![s].resume_file_path = r.resume_file_path,
                                  ![s].trace = Append(@, done)]
            /\ pc' = [pc EXCEPT ![s] = AfterStep(run[s].click, "resume", done.ok)]
    /\ UNCHANGED <<agentVars, sessionVars, last, historyVars, parseVars, formatVars,
                   fallbackVars, session_state>>

\* Step 2: the job description is set
StepJob(s) ==
    /\ pc[s] = "job"
    /\ LET r == set_job_description(run[s].job_description, Some(run[s].manual_job_desc))
           done == StepDone("job", r @@ NoCalls)
       IN  /\ run' = [run EXCEPT ![s].job_description = r.job_description,
                                 ![s].trace = Append(@, done)]
           /\ pc' = [pc EXCEPT ![s] = AfterStep(run[s].click, "job", done.ok)]
    /\ UNCHANGED <<agentVars, sessionVars, fs, last, historyVars, parseVars, formatVars,
                   fallbackVars, session_state, writer>>

\* Step 3: the match analysis, stored and recorded for the analyze button
StepAnalysis(s, E) ==
    /\ pc[s] = "analysis"
    /\ \E e \in E.analysis :
        \E order \in Orders(WordSet(run[s].job_description[1])) :
            LET r == analyze_job_match(run[s].resume_text, run[s].job_description, e, order)
                done == StepDone("analysis", r @@ [mail |-> <<>>])
            IN  /\ session_state' =
                       [session_state EXCEPT ![s] =
                           AnalysisEffects(@, run[s].click, done.ok, r.out.payload.analysis,
                                           run[s].manual_job_desc, clock)]
                /\ run' = [run EXCEPT ![s].trace = Append(@, done)]
                /\ pc' = [pc EXCEPT ![s] = AfterStep(run[s].click, "analysis", done.ok)]
    /\ UNCHANGED <<agentVars, sessionVars, fs, last, historyVars, parseVars, formatVars,
                   fallbackVars, writer>>

\* Step 4: the email is generated and stored in the session
StepGenerate(s, E) ==
    /\ pc[s] = "generate"
    /\ \E e \in E.generate :
        LET r == generate_professional_email(run[s].resume_text, run[s].job_description, e)
            done == StepDone("generate", r @@ [mail |-> <<>>])
        IN  /\ session_state' =
                   [session_state EXCEPT ![s] =
                       IF done.ok
                       THEN [@ EXCEPT !.keys = @ \cup {"email_content"},
                                      !.email_content = r.out.payload.email]
                       ELSE @]
            /\ run' = [run EXCEPT ![s].email_content =
                                      IF done.ok THEN r.out.payload.email ELSE @,
                                  ![s].trace = Append(@, done)]
            /\ pc' = [pc EXCEPT ![s] = AfterStep(run[s].click, "generate", done.ok)]
    /\ UNCHANGED <<agentVars, sessionVars, fs, last, historyVars, parseVars, formatVars,
                   fallbackVars, writer>>

\* Step 5: the email is drafted or sent with the file at agent.resume_file_path,
\* and a success is recorded. The access token may have expired by now.
StepDispatch(s, E) ==
    /\ pc[s] = "dispatch"
    /\ \E e \in E.dispatch, expired \in E.expiry :
        LET r == attach_and_send_email(IF expired THEN "invalid"
                                       ELSE run[s].gmail_credentials,
                                       fs, run[s].recipient_email, run[s].email_content[1],
                                       run[s].resume_file_path, run[s].click, e)
            done == StepDone("dispatch", r @@ [llm |-> <<>>])
        IN  /\ session_state' =
                   [session_state EXCEPT ![s] =
                       DispatchEffects(@, done.ok, run[s].recipient_email,
                                       run[s].email_content[1], run[s].click, clock)]
            /\ run' = [run EXCEPT ![s].trace = Append(@, done)]
            /\ pc' = [pc EXCEPT ![s] = AfterStep(run[s].click, "dispatch", done.ok)]
    /\ UNCHANGED <<agentVars, sessionVars, fs, last, historyVars, parseVars, formatVars,
                   fallbackVars, writer>>

MainSessions == {1}

NextMain ==
    \E s \in MainSessions :
        \/ Start(s, FullEnv)
        \/ ClearSessionData(s, FullEnv)
        \/ Rerun(s)
        \/ StepResume(s, FullEnv)
        \/ StepJob(s)
        \/ StepAnalysis(s, FullEnv)
        \/ StepGenerate(s, FullEnv)
        \/ StepDispatch(s, FullEnv)

SpecMain == Init /\ [][NextMain]_vars

-----------------------------------------------------------------------------
(* Two sessions in one working directory: each sends emails with its own    *)
(* upload of the same name, and every external call succeeds.               *)

QuietEnv ==
    [clicks |-> {"send"},
     uploads |-> {Some(u) : u \in {v \in Uploads : v.data \in {"pdfJohn", "pdfLine"}}},
     jobs |-> {JobText},
     recipients |-> Recipients,
     cred_uploads |-> {TRUE},
     auth |-> {e \in AuthEnv : e.refresh = "ok" /\ e.flow = "ok"},
     write |-> {"ok"},
     analysis |-> {e \in AnalysisEnv : e.ctor = "ok" /\ e.llm.raised},
     generate |-> {e \in MainGenerateEnv : e.ctor = "ok" /\ e.llm.content = LetterText},
     dispatch |-> {e \in DispatchEnv : e.build = "ok" /\ e.read = "ok" /\ e.api = "id1"},
     expiry |-> {FALSE},
     remove |-> {"ok"}]

NextSessions ==
    \E s \in Sessions :
        \/ Start(s, QuietEnv)
        \/ StepResume(s, QuietEnv)
        \/ StepJob(s)
        \/ StepAnalysis(s, QuietEnv)
        \/ StepGenerate(s, QuietEnv)
        \/ StepDispatch(s, QuietEnv)

SpecSessions == Init /\ [][NextSessions]_vars

-----------------------------------------------------------------------------
(* Claims about the script run                                              *)

StepOrder == <<"resume", "job", "analysis", "generate", "dispatch">>
Ended(s) == pc[s] = "idle" /\ run[s].click \in ActionClicks /\ run[s].trace # <<>>

\* C21: within one action the steps run in the order resume, job description,
\* analysis, generation, dispatch, each only after the one before succeeded;
\* the analysis runs in every action that set its job description, generation
\* and dispatch run in draft and send actions only.
C21_StepOrder ==
    \A s \in Sessions :
        LET t == run[s].trace
        IN  /\ Len(t) <= Len(StepOrder)
            /\ \A i \in 1..Len(t) : t[i].step = StepOrder[i]
            /\ \A i \in 2..Len(t) : t[i - 1].ok
            /\ run[s].click = "analyze" => Len(t) <= 3
            /\ Len(t) > 3 => run[s].click \in EmailClicks
            /\ (Ended(s) /\ Len(t) >= 2 /\ t[2].ok) => Len(t) >= 3
            /\ (Ended(s) /\ Len(t) >= 3 /\ t[3].ok /\ run[s].click \in EmailClicks)
                   => Len(t) >= 4
            /\ (Ended(s) /\ Len(t) >= 4 /\ t[4].ok) => Len(t) = 5
            /\ \A i \in 1..Len(t) :
                   /\ t[i].llm # <<>> => t[i].step \in {"analysis", "generate"}
                   /\ t[i].mail # <<>> => t[i].step = "dispatch"

C21_Witness ==
    \E s \in Sessions :
        /\ run[s].click = "send"
        /\ Len(run[s].trace) = 5
        /\ run[s].trace[5].ok
        /\ run[s].trace[5].mail # <<>>

\* C22: in a draft or send action whose resume and job description steps
\* succeeded, the analysis step succeeds whatever llm.invoke did (raise, or
\* return a short text), so that the action goes on to the generation.
C22_AnalysisNeverEndsAction ==
    \A s \in Sessions :
        LET t == run[s].trace
        IN  (/\ run[s].click \in EmailClicks
             /\ Len(t) >= 3
             /\ t[1].ok /\ t[2].ok
             /\ t[3].llm # <<>>)
            => /\ t[3].ok
               /\ pc[s] = "generate" \/ Len(t) >= 4

\* The keys of the data the application stores in the session
StoredData ==
    {"activity_history", "analysis_result", "email_content", "job_desc_text",
     "recipient_email_text", "uploaded_file_data", "uploaded_file_name",
     "credentials_content", "gmail_token"}

\* C23: after clear_session_data the session holds none of the data the
\* application stored: history, analysis result, email content, persistent
\* inputs, uploaded credentials and Gmail token are absent.
C23_NothingStoredAfterClear ==
    \A s \in Sessions :
        pc[s] = "cleared" => session_state[s].keys \cap StoredData = {}

\* The types of the entries an action has earned so far, newest first: an
\* email entry for a successful dispatch, an analysis entry for a successful
\* analysis of an analyze action
Earned(s) ==
    LET t == run[s].trace
    IN  (IF Len(t) = 5 /\ t[5].ok THEN <<"email">> ELSE <<>>)
            \o (IF run[s].click = "analyze" /\ Len(t) >= 3 /\ t[3].ok
                THEN <<"analysis">> ELSE <<>>)
InAction(s) == run[s].click \in ActionClicks \cup {"none"} /\ run[s].count > 0

\* C24: during and after an action the activity history is the history the
\* action started with, preceded by one entry for each success (the dispatch
\* of a draft or send action, the analysis of an analyze action) and by
\* nothing else; a draft or send action leaves the stored analysis result as
\* it was.
C24_HistoryOnlyOnSuccess ==
    \A s \in Sessions :
        InAction(s) =>
            LET h == session_state[s].activity_history
                b == run[s].before.activity_history
                e == Earned(s)
            IN  /\ Len(h) = IF Len(e) + Len(b) > HistoryCap THEN HistoryCap
                             ELSE Len(e) + Len(b)
                /\ \A i \in 1..Len(h) :
                       IF i <= Len(e) THEN h[i].type = e[i] ELSE h[i] = b[i - Len(e)]
                /\ run[s].click \in EmailClicks
                       => session_state[s].analysis_result = run[s].before.analysis_result

C24_Witness ==
    \E s \in Sessions :
        /\ run[s].click \in EmailClicks
        /\ Earned(s) = <<"email">>
        /\ run[s].before.activity_history # <<>>
        /\ run[s].before.analysis_result # None
        /\ Len(session_state[s].activity_history) = 2

\* The bytes of the resume a session processes in its action: the upload of
\* the run, or the one kept in the session
OwnData(s) ==
    IF run[s].uploaded_file # None THEN run[s].uploaded_file[1].data
    ELSE session_state[s].uploaded_file[1].data
Dispatched(s) == Len(run[s].trace) = 5 /\ run[s].trace[5].mail # <<>>
AttachedBy(s) == run[s].trace[5].mail[1].attachment[1].payload

\* C26, as stated: the attachment a session dispatches holds the bytes of the
\* resume the same session processed in that action.
C26_Original == \A s \in Sessions : Dispatched(s) => AttachedBy(s) = OwnData(s)

\* C26: the attachment a session dispatches holds the bytes that the file
\* resume_<name> holds when the session dispatches; they are the bytes of the
\* session's own resume when the session was the last to write that file.
C26_AttachesFileContent ==
    [][\A s \in Sessions :
          (pc[s] = "dispatch" /\ Len(run'[s].trace) = 5 /\ run'[s].trace[5].mail # <<>>)
          => LET path == run[s].resume_file_path[1]
                 sent == run'[s].trace[5].mail[1].attachment[1].payload
             IN  /\ sent = fs[path]
                 /\ writer[path] = s => sent = OwnData(s)]_vars

C26_Witness ==
    \E s \in Sessions : \E o \in Sessions \ {s} :
        /\ Dispatched(s)
        /\ AttachedBy(s) = OwnData(s)
        /\ run[o].trace # <<>>
        /\ run[o].trace[1].ok
        /\ run[o].uploaded_file # None
        /\ run[o].uploaded_file[1].name = run[s].uploaded_file[1].name
        /\ OwnData(o) # OwnData(s)

=============================================================================
